---- MODULE Spec2Model ----
(***************************************************************************)
(* A model of the go-snmp client package: the BER codec of value.go, the   *)
(* type-tag registry, and the protocol engine behind the Client interface. *)
(*                                                                         *)
(* Bytes are naturals in 0..255.  Go's 64-bit int, int64 and uint64 are     *)
(* modelled exactly as big-endian sequences of eight bytes ("words"), so    *)
(* that shifts wrap as they do on the machine; TLC's own integers are only  *)
(* used for quantities below 2^31.                                          *)
(***************************************************************************)
EXTENDS Integers, Sequences, FiniteSets, TLC

VARIABLES
    input,        \* codec: the byte slice handed to a decoder
    fn,           \* codec: the decoder that ran ("none" before any)
    res,          \* codec: what the decoder returned
    typeA,        \* types: a kind of the type system
    typeB,        \* types: another kind, or the same
    tagA,         \* types: typeA.Tag() once called, -1 before
    tagB,         \* types: typeB.Tag() once called, -1 before
    val,          \* types: the value handed to typeA.ValidateValue, by its struct name
    validation,   \* types: what ValidateValue did ("none" before the call)
    oidA,         \* identifiers: an OID
    oidB,         \* identifiers: a second OID
    oidC,         \* identifiers: a third OID
    rel,          \* identifiers: the results of the method calls made so far, by call
    text,         \* identifiers: the string handed to ParseOID
    idFn,         \* identifiers: the function that ran on text or oidA ("none" before any)
    idRes,        \* identifiers: what that function returned
    root,         \* engine: the identifier the calls address (the root of the walks)
    supportsBulk, \* engine: whether the agent understands bulk-fetch
    numRetries,   \* engine: ClientOptions.NumRetries
    bulkCache,    \* engine: the client's bulk-capability cache
    cacheHistory, \* engine: the values bulkCache has held, oldest first
    call,         \* engine: the state of each caller's Get, Set or Walk call
    given,        \* client: the options handed to NewClient, in order
    clientOpts,   \* client: the ClientOptions handed to NewClientWithOptions
    created,      \* client: what NewClient or NewClientWithOptions returned
    wait,         \* client: what BackoffFunc returned, by the number of retries it was called with
    scalar        \* scalar node: a GetScalar call, from its inputs to its result

codecVars == <<input, fn, res>>

typeVars == <<typeA, typeB, tagA, tagB, val, validation>>

idVars == <<oidA, oidB, oidC, rel, text, idFn, idRes>>

engineVars == <<root, supportsBulk, numRetries, bulkCache, cacheHistory, call>>

apiVars == <<given, clientOpts, created, wait, scalar>>

vars == <<input, fn, res, typeA, typeB, tagA, tagB, val, validation, oidA, oidB, oidC, rel, text, idFn, idRes, root, supportsBulk, numRetries, bulkCache, cacheHistory, call, given, clientOpts, created, wait, scalar>>

----------------------------------------------------------------------------
(* The parts of the state a specification does not use stay at these values. *)

TypesIdle ==
    /\ typeA = "none"
    /\ typeB = "none"
    /\ tagA = -1
    /\ tagB = -1
    /\ val = "none"
    /\ validation = "none"

IdsIdle ==
    /\ oidA = <<>>
    /\ oidB = <<>>
    /\ oidC = <<>>
    /\ rel = <<>>
    /\ text = <<>>
    /\ idFn = "idle"
    /\ idRes = <<>>

EngineIdle ==
    /\ root = <<>>
    /\ supportsBulk = FALSE
    /\ numRetries = 0
    /\ bulkCache = "unknown"
    /\ cacheHistory = <<>>
    /\ call = <<>>

----------------------------------------------------------------------------
(* The wire form of a value, by the rules of the encoding (the package has *)
(* no encoder): tag, definite length, content.  A value is a record of its *)
(* kind and payload: an Integer holds an integer, the unsigned kinds their *)
(* bytes (4 or 8), TimeTicks the nanoseconds as 8 bytes, an identifier its *)
(* sub-identifiers, the byte kinds their bytes.                            *)

RECURSIVE WithoutLeadingZeros(_)
WithoutLeadingZeros(bs) == IF bs # <<>> /\ bs[1] = 0 THEN WithoutLeadingZeros(Tail(bs)) ELSE bs

\* the big-endian bytes of an unsigned number, at least one
UnsignedContent(bs) == IF WithoutLeadingZeros(bs) = <<>> THEN <<0>> ELSE WithoutLeadingZeros(bs)

\* the shortest two's-complement form of the bytes bs
RECURSIVE ShortestSigned(_)
ShortestSigned(bs) ==
    IF Len(bs) > 1 /\ ((bs[1] = 0 /\ bs[2] < 128) \/ (bs[1] = 255 /\ bs[2] >= 128))
    THEN ShortestSigned(Tail(bs))
    ELSE bs

\* the shortest two's-complement form of the integer v, -2^31 <= v < 2^31
SignedContent(v) == ShortestSigned(<<(v \div 16777216) % 256, (v \div 65536) % 256, (v \div 256) % 256, v % 256>>)

\* the quotient of the natural with big-endian bytes bs by k <= 10^4, digit by digit
RECURSIVE QuotientFrom(_, _, _)
QuotientFrom(bs, k, rem) ==
    IF bs = <<>> THEN <<>>
    ELSE LET a == rem * 256 + bs[1]
         IN  <<a \div k>> \o QuotientFrom(Tail(bs), k, a % k)

\* the hundredths of a second in a duration of nanoseconds: d div 10^7, as 4 bytes
HundredthsOf(d) == LET q == QuotientFrom(QuotientFrom(d, 10000, 0), 1000, 0) IN SubSeq(q, Len(q) - 3, Len(q))

\* the base-128 group of the sub-identifier n: more is TRUE on all bytes but the last
RECURSIVE Base128(_, _)
Base128(n, more) ==
    (IF n >= 128 THEN Base128(n \div 128, TRUE) ELSE <<>>) \o <<(n % 128) + (IF more THEN 128 ELSE 0)>>

RECURSIVE PackedGroups(_)
PackedGroups(o) == IF o = <<>> THEN <<>> ELSE Base128(o[1], FALSE) \o PackedGroups(Tail(o))

\* the packed form of an identifier of at least two sub-identifiers
PackedContent(o) == <<40 * o[1] + o[2]>> \o PackedGroups(SubSeq(o, 3, Len(o)))

\* the tag of each kind of the registry that has a decode path
WireTag(kind) ==
    CASE kind = "Integer" -> 2
      [] kind = "OctetString" -> 4
      [] kind = "Null" -> 5
      [] kind = "ObjectIdentifier" -> 6
      [] kind = "IPAddress" -> 64
      [] kind = "Counter32" -> 65
      [] kind = "TimeTicks" -> 67
      [] kind = "Opaque" -> 68
      [] kind = "Counter64" -> 70
      [] kind = "UInteger32" -> 71
      [] kind = "NoSuchObject" -> 128
      [] kind = "NoSuchInstance" -> 129
      [] kind = "EndOfMibView" -> 130

Content(v) ==
    CASE v.kind = "Integer" -> SignedContent(v.payload)
      [] v.kind \in {"UInteger32", "Counter32", "Counter64"} -> UnsignedContent(v.payload)
      [] v.kind = "TimeTicks" -> UnsignedContent(HundredthsOf(v.payload))
      [] v.kind = "ObjectIdentifier" -> PackedContent(v.payload)
      [] OTHER -> v.payload

\* tag, short-form length, content
Encode(v) == <<WireTag(v.kind), Len(Content(v))>> \o Content(v)

\* the values whose round trip is checked: the boundaries and some between
RoundTripValues ==
    {[kind |-> "Integer", payload |-> i] : i \in {0, 1, -1, 127, 128, -128, -129, 2147483647, -2147483647 - 1}}
    \cup {[kind |-> k, payload |-> w] : k \in {"UInteger32", "Counter32"}, w \in {<<0, 0, 0, 0>>, <<0, 0, 1, 0>>, <<255, 255, 255, 255>>}}
    \cup {[kind |-> "Counter64", payload |-> w] : w \in {<<0, 0, 0, 0, 0, 0, 0, 0>>, <<0, 0, 0, 0, 0, 0, 1, 0>>, <<255, 255, 255, 255, 255, 255, 255, 255>>}}
    \cup {[kind |-> "TimeTicks", payload |-> d] : d \in {<<0, 0, 0, 0, 0, 0, 0, 0>>, <<0, 0, 0, 0, 0, 152, 150, 128>>, <<0, 152, 150, 127, 255, 103, 105, 128>>}}
    \cup {[kind |-> k, payload |-> b] : k \in {"OctetString", "Opaque"}, b \in {<<>>, <<0>>, <<1, 255>>}}
    \cup {[kind |-> "ObjectIdentifier", payload |-> o] : o \in {<<0, 0>>, <<1, 3>>, <<1, 3, 6, 1, 300>>, <<2, 39, 16383>>}}
    \cup {[kind |-> "IPAddress", payload |-> a] : a \in {<<0, 0, 0, 0>>, <<127, 0, 0, 1>>, <<255, 255, 255, 255>>}}
    \cup {[kind |-> k, payload |-> <<>>] : k \in {"Null", "NoSuchObject", "NoSuchInstance", "EndOfMibView"}}

EncodedInputs == {Encode(v) : v \in RoundTripValues}

----------------------------------------------------------------------------
(* Bounds of the codec inputs. *)

\* longest body (the bytes after the first) of the general inputs
MaxLen == 5

\* how many bytes of a wide input may precede, and how many may follow, its run
MaxExtra == 2

\* the size of a machine word in bytes (Go int / int64 / uint64 on 64-bit targets)
WordBytes == 8

\* first bytes of the general inputs: short-form lengths, the indefinite-length
\* byte 0x80, the long-form leaders 0x81 and 0x82
Heads == {0, 1, 2, 3, 4, 5, 127, 128, 129, 130}

\* the bytes that follow the first byte
PayloadBytes == {0, 1, 127, 128, 255}

\* first bytes of the wide inputs: the short-form lengths 8 and 9 and the
\* long-form leaders 0x88 and 0x89 (k = 8 and k = 9 length bytes)
WideHeads == {8, 9, 136, 137}

\* the bytes of a wide input
WideBytes == {0, 1, 255}

SeqsOfLen(S, n) == [1..n -> S]

SeqsUpTo(S, n) == UNION {SeqsOfLen(S, k) : k \in 0..n}

\* n copies of the byte f
Run(f, n) == [i \in 1..n |-> f]

GeneralInputs == {<<>>} \cup {<<h>> \o s : h \in Heads, s \in SeqsUpTo(PayloadBytes, MaxLen)}

\* a first byte, up to MaxExtra high bytes, a run of WordBytes - 2 equal bytes,
\* up to MaxExtra low bytes: 6 to 10 bytes after the first, enough to fill and
\* to overflow a machine word
WideInputs == {<<h>> \o hi \o Run(f, WordBytes - 2) \o lo : h \in WideHeads, hi \in SeqsUpTo(WideBytes, MaxExtra), f \in {0, 255}, lo \in SeqsUpTo(WideBytes, MaxExtra)}

\* the inputs of the tables of value_test.go
TestInputs == {
    <<5, 0, 0, 0, 0, 0>>, <<129, 5, 4, 3, 2, 1, 0>>, <<129, 5, 0>>, <<129, 5, 129, 0>>,
    <<127, 1>>, <<129, 1, 2>>, <<128, 1, 2>>, <<130, 1>>,
    <<136, 255, 255, 255, 255, 255, 255, 255, 1>>,
    <<1, 127, 117>>, <<1, 255>>, <<1>>,
    <<8, 255, 255, 255, 255, 255, 255, 255, 255, 117>>,
    <<4, 1, 2, 3, 4, 5>>, <<2, 1>>}

\* longest payload of the value inputs
MaxValueLen == 4

\* tag bytes of the value inputs: the dispatched tags that carry a payload,
\* and the tags of two kinds decodeBERValue does not dispatch on
ValueTags == {2, 4, 6, 7, 64, 65, 66, 67, 68, 69, 70, 71}

\* payload bytes of the value inputs
ValueBytes == {0, 1, 128, 255}

\* a tag byte, a short-form length of 0 to MaxValueLen + 1, and a payload
ValueInputs == {<<t, l>> \o s : t \in ValueTags, l \in 0..(MaxValueLen + 1), s \in SeqsUpTo(ValueBytes, MaxValueLen)}

\* the encodings of the largest and the smallest 64-bit counter
BoundaryInputs == {<<70, WordBytes>> \o Run(f, WordBytes) : f \in {0, 255}}

\* the inputs given one by one
SpecialInputs == WideInputs \cup TestInputs \cup BoundaryInputs \cup EncodedInputs

----------------------------------------------------------------------------
(* 64-bit machine words as eight big-endian bytes. *)

Zero64 == <<0, 0, 0, 0, 0, 0, 0, 0>>

MinusOne64 == <<255, 255, 255, 255, 255, 255, 255, 255>>

\* int(b), int64(b), uint64(b) of a byte b
WordOfByte(b) == <<0, 0, 0, 0, 0, 0, 0, b>>

\* w<<8 | b : the top byte falls off, b comes in at the bottom
ShiftLeft8Or(w, b) == SubSeq(w, 2, WordBytes) \o <<b>>

\* w < 0 for a signed word
IsNegative(w) == w[1] >= 128

\* the value of the low three bytes
Low24(w) == w[6] * 65536 + w[7] * 256 + w[8]

\* some byte above the low three is set
HighSet(w) == \E i \in 1..5 : w[i] # 0

\* signed w > n, for a small n >= 0
GreaterThan(w, n) == ~IsNegative(w) /\ (HighSet(w) \/ Low24(w) > n)

\* uint32(w), int32(w): the low four bytes
Low32(w) == SubSeq(w, 5, 8)

\* the value of a 4-byte two's-complement word, as an integer
Int32Value(w) == (IF w[1] >= 128 THEN w[1] - 256 ELSE w[1]) * 16777216 + w[2] * 65536 + w[3] * 256 + w[4]

----------------------------------------------------------------------------
(* The tag registry (the typeTag constants). *)

tagBoolean == 1

tagInteger == 2

tagBitString == 3

tagOctetString == 4

tagNull == 5

tagObjectIdentifier == 6

tagObjectDescription == 7

tagIpAddress == 64

tagCounter32 == 65

tagGauge32 == 66

tagTimeTicks == 67

tagOpaque == 68

tagNsapAddress == 69

tagCounter64 == 70

tagUTnteger32 == 71

tagOpaqueFloat == 120

tagOpaqueDouble == 121

tagNoSuchObject == 128

tagNoSuchInstance == 129

tagEndOfMibView == 130

----------------------------------------------------------------------------
(* The decoders of value.go.  Every decoder returns a record: err is the   *)
(* error result (TRUE for a non-nil error), tail the returned slice, and   *)
(* panic is TRUE when the Go code aborts with a run-time panic instead of  *)
(* returning (a slice bound out of range, a negative shift count).         *)

LengthResult(e, l, t) == [err |-> e, panic |-> FALSE, length |-> l, tail |-> t]

ValueResult(e, v, t) == [err |-> e, panic |-> FALSE, value |-> v, tail |-> t]

Panic == [err |-> FALSE, panic |-> TRUE, value |-> <<>>, tail |-> <<>>]

\* b[n:] for 0 <= n <= len(b)
SliceFrom(b, n) == SubSeq(b, n + 1, Len(b))

\* int(b[0] & 0x7f)
lengthLength(b) == b[1] % 128

\* for i := 0; i < lengthLength; i++ { length = length<<8 | int(b[i+1]) }
RECURSIVE lengthLoop(_, _, _, _)
lengthLoop(b, i, n, length) == IF i < n THEN lengthLoop(b, i + 1, n, ShiftLeft8Or(length, b[i + 2])) ELSE length

\* the indefinite-length branch of decodeBERLength: return -1, b[1:], nil
indefiniteLength(b) == LengthResult(FALSE, MinusOne64, SliceFrom(b, 1))

\* the long-form check "lengthLength > len(b)-1"
lengthOfLengthTooLong(b) == lengthLength(b) > Len(b) - 1

\* the overflow check "length < 0"
lengthOverflow(length) == IsNegative(length)

decodeBERLength(b) ==
    IF Len(b) = 0 THEN LengthResult(TRUE, Zero64, b)
    ELSE IF b[1] = 128 THEN indefiniteLength(b)
    ELSE IF b[1] <= 127 THEN LengthResult(FALSE, WordOfByte(b[1]), SliceFrom(b, 1))
    ELSE IF lengthOfLengthTooLong(b) THEN LengthResult(TRUE, Zero64, b)
    ELSE LET length == lengthLoop(b, 0, lengthLength(b), Zero64)
         IN  IF lengthOverflow(length) THEN LengthResult(TRUE, Zero64, b)
             ELSE LengthResult(FALSE, length, SliceFrom(b, lengthLength(b) + 1))

\* for i := 0; i < length; i++ { value = value<<8 | uint64(b[i]) }
\* (length is below 2^24 here, or negative and the loop does not run)
RECURSIVE valueLoop(_, _, _, _)
valueLoop(b, i, n, value) == IF i < n THEN valueLoop(b, i + 1, n, ShiftLeft8Or(value, b[i + 1])) ELSE value

\* the checks both integer decoders make on the decoded length; "" when all pass
integerLengthError(length, b, size) ==
    IF length = Zero64 THEN "zero-length integer"
    ELSE IF GreaterThan(length, size) THEN "integer too large"
    ELSE IF GreaterThan(length, Len(b)) THEN "truncated integer"
    ELSE ""

decodeBERUInt(b0, size) ==
    LET r == decodeBERLength(b0)
        b == r.tail
    IN  IF r.err THEN ValueResult(TRUE, Zero64, b)
        ELSE IF integerLengthError(r.length, b, size) # "" THEN ValueResult(TRUE, Zero64, b)
        ELSE IF IsNegative(r.length) THEN Panic   \* b[length:] with length = -1
        ELSE LET n == Low24(r.length)
             IN  ValueResult(FALSE, valueLoop(b, 0, n, Zero64), SliceFrom(b, n))

\* a sign test on bit 63 of the word instead of bit 8*length-1
signBitOfWord(value, length) == value[1] >= 128

\* value&(1<<(8*length-1)) != 0, for length in 1..8
signBitSet(value, length) == value[WordBytes + 1 - length] >= 128

\* value |= -1 << (8*length), for length in 1..8 (a shift by 64 gives 0)
signExtend(value, length) == [i \in 1..WordBytes |-> IF i <= WordBytes - length THEN 255 ELSE value[i]]

decodeBERInt(b0, size) ==
    LET r == decodeBERLength(b0)
        b == r.tail
    IN  IF r.err THEN ValueResult(TRUE, Zero64, b)
        ELSE IF integerLengthError(r.length, b, size) # "" THEN ValueResult(TRUE, Zero64, b)
        ELSE IF IsNegative(r.length) THEN Panic   \* 1<<(8*length-1) with a negative count
        ELSE LET n == Low24(r.length)
                 value == valueLoop(b, 0, n, Zero64)
             IN  ValueResult(FALSE, IF signBitSet(value, n) THEN signExtend(value, n) ELSE value, SliceFrom(b, n))

\* int32 results are integers, uint32 results 4-byte words, uint64 results 8-byte words
decodeBERInt32(b) ==
    LET r == decodeBERInt(b, 4)
    IN  IF r.panic THEN r
        ELSE IF r.err THEN ValueResult(TRUE, 0, r.tail)
        ELSE ValueResult(FALSE, Int32Value(Low32(r.value)), r.tail)

decodeBERUInt32(b) ==
    LET r == decodeBERUInt(b, 4)
    IN  IF r.panic THEN r
        ELSE IF r.err THEN ValueResult(TRUE, Low32(Zero64), r.tail)
        ELSE ValueResult(FALSE, Low32(r.value), r.tail)

decodeBERUInt64(b) == decodeBERUInt(b, 8)

decodeBERBytes(b0) ==
    LET r == decodeBERLength(b0)
        b == r.tail
    IN  IF r.err THEN ValueResult(TRUE, <<>>, b)
        ELSE IF GreaterThan(r.length, Len(b)) THEN ValueResult(TRUE, <<>>, b)
        ELSE IF IsNegative(r.length) THEN Panic   \* b[:length] with length = -1
        ELSE LET n == Low24(r.length)
             IN  ValueResult(FALSE, SubSeq(b, 1, n), SliceFrom(b, n))

\* decodeBERObjectIdentifier and decodeBERIpAddress: return nil, b, errors.New("not implemented")
decodeBERObjectIdentifier(b) == ValueResult(TRUE, <<>>, b)

decodeBERIpAddress(b) == ValueResult(TRUE, <<>>, b)

----------------------------------------------------------------------------
(* The text of the errors the decoders return, without the formatted       *)
(* arguments; "" stands for a nil error.                                   *)

lengthErrorText(b) ==
    IF Len(b) = 0 THEN "no data"
    ELSE IF b[1] <= 128 THEN ""
    ELSE IF lengthOfLengthTooLong(b) THEN "length of length is longer than the remaining data"
    ELSE IF lengthOverflow(lengthLoop(b, 0, lengthLength(b), Zero64)) THEN "negative length (overflow)"
    ELSE ""

integerErrorText(b, size) ==
    LET r == decodeBERLength(b)
    IN  IF r.err THEN lengthErrorText(b) ELSE integerLengthError(r.length, r.tail, size)

bytesErrorText(b) ==
    LET r == decodeBERLength(b)
    IN  IF r.err THEN lengthErrorText(b)
        ELSE IF GreaterThan(r.length, Len(r.tail)) THEN "truncated bytes"
        ELSE ""

notImplementedText(b) == "not implemented"

----------------------------------------------------------------------------
(* Values, as the decoder builds them: the struct and its payload. *)

\* time.Millisecond, in nanoseconds
Millisecond == 1000000

\* the low 64 bits of w * k, for a word w and a factor 0 < k <= 10^6
RECURSIVE timesLoop(_, _, _)
timesLoop(w, k, carry) ==
    IF w = <<>> THEN <<>>
    ELSE LET p == w[Len(w)] * k + carry
         IN  timesLoop(SubSeq(w, 1, Len(w) - 1), k, p \div 256) \o <<p % 256>>

Times64(w, k) == timesLoop(w, k, 0)

\* int64(v), uint64(v) of a uint32 v
Word64(v) == Run(0, WordBytes - Len(v)) \o v

\* a nil Value
Nil == [kind |-> "nil", payload |-> <<>>]

\* NewInteger(int(t))
NewInteger(t) == [kind |-> "Integer", payload |-> t]

NewUInteger32(v) == [kind |-> "UInteger32", payload |-> v]

NewOctetString(v) == [kind |-> "OctetString", payload |-> v]

NewObjectIdentifier(v) == [kind |-> "ObjectIdentifier", payload |-> v]

NewIPAddress(v) == [kind |-> "IPAddress", payload |-> v]

NewCounter32(v) == [kind |-> "Counter32", payload |-> v]

\* NewTimeTicks(time.Duration(value) * 100 * time.Millisecond)
NewTimeTicksFromHundredths(v) == [kind |-> "TimeTicks", payload |-> Times64(Times64(Word64(v), 100), Millisecond)]

NewOpaque(v) == [kind |-> "Opaque", payload |-> v]

NewCounter64(v) == [kind |-> "Counter64", payload |-> v]

Null == [kind |-> "Null", payload |-> <<>>]

NoSuchObject == [kind |-> "NoSuchObject", payload |-> <<>>]

NoSuchInstance == [kind |-> "NoSuchInstance", payload |-> <<>>]

EndOfMibViewValue == [kind |-> "EndOfMibView", payload |-> <<>>]

----------------------------------------------------------------------------
(* decodeBERValue: the dispatch on the tag byte. *)

\* what decodeBERValue returns: msg is the text of the error
Decoded(e, v, t, m) == [err |-> e, panic |-> FALSE, value |-> v, tail |-> t, msg |-> m]

DecodePanic == [err |-> FALSE, panic |-> TRUE, value |-> Nil, tail |-> <<>>, msg |-> ""]

\* tryDecode(b, decodeFn, valueConstr), given the result r of decodeFn(b), the
\* text of its error and made, which is valueConstr(v) for the v of r
tryDecode(r, errorText, made) ==
    IF r.panic THEN DecodePanic
    ELSE IF r.err THEN Decoded(TRUE, Nil, r.tail, errorText)
    ELSE Decoded(FALSE, made, r.tail, "")

\* an unsupported-tag result that skips the tag byte
unsupportedTagSkipped(b) == Decoded(TRUE, Nil, SliceFrom(b, 1), "unsupported type tag")

\* return nil, b, fmt.Errorf("unsupported type tag %d", b[0])
unsupportedTag(b) == Decoded(TRUE, Nil, b, "unsupported type tag")

decodeBERValue(b) ==
    IF Len(b) = 0 THEN Decoded(TRUE, Nil, b, "no data")
    ELSE LET rest == SliceFrom(b, 1)
         IN  CASE b[1] = tagInteger -> tryDecode(decodeBERInt32(rest), integerErrorText(rest, 4), NewInteger(decodeBERInt32(rest).value))
               [] b[1] = tagUTnteger32 -> tryDecode(decodeBERUInt32(rest), integerErrorText(rest, 4), NewUInteger32(decodeBERUInt32(rest).value))
               [] b[1] = tagOctetString -> tryDecode(decodeBERBytes(rest), bytesErrorText(rest), NewOctetString(decodeBERBytes(rest).value))
               [] b[1] = tagObjectIdentifier -> tryDecode(decodeBERObjectIdentifier(rest), notImplementedText(rest), NewObjectIdentifier(decodeBERObjectIdentifier(rest).value))
               [] b[1] = tagIpAddress -> tryDecode(decodeBERIpAddress(rest), notImplementedText(rest), NewIPAddress(decodeBERIpAddress(rest).value))
               [] b[1] = tagCounter32 -> tryDecode(decodeBERUInt32(rest), integerErrorText(rest, 4), NewCounter32(decodeBERUInt32(rest).value))
               [] b[1] = tagGauge32 -> tryDecode(decodeBERUInt32(rest), integerErrorText(rest, 4), NewUInteger32(decodeBERUInt32(rest).value))
               [] b[1] = tagTimeTicks -> tryDecode(decodeBERUInt32(rest), integerErrorText(rest, 4), NewTimeTicksFromHundredths(decodeBERUInt32(rest).value))
               [] b[1] = tagOpaque -> tryDecode(decodeBERBytes(rest), bytesErrorText(rest), NewOpaque(decodeBERBytes(rest).value))
               [] b[1] = tagCounter64 -> tryDecode(decodeBERUInt64(rest), integerErrorText(rest, 8), NewCounter64(decodeBERUInt64(rest).value))
               [] b[1] = tagNull -> Decoded(FALSE, Null, rest, "")
               [] b[1] = tagNoSuchObject -> Decoded(FALSE, NoSuchObject, rest, "")
               [] b[1] = tagNoSuchInstance -> Decoded(FALSE, NoSuchInstance, rest, "")
               [] b[1] = tagEndOfMibView -> Decoded(FALSE, EndOfMibViewValue, rest, "")
               [] OTHER -> unsupportedTag(b)

----------------------------------------------------------------------------
(* The codec as a state machine: an input is chosen, one decoder runs on it. *)

NoResult == [err |-> FALSE, panic |-> FALSE, value |-> <<>>, tail |-> <<>>]

\* a func value: nil, the closure of WithExponentialBackoff over its base,
\* or a function of the caller's own
Func(k, b) == [kind |-> k, base |-> b]

\* the zero value of ClientOptions; "nil" is a nil pointer or interface
ZeroOptions == [Target |-> "", V2c |-> "nil", V3 |-> "nil", Timeout |-> <<0, 0, 0, 0, 0, 0, 0, 0>>, NumRetries |-> 0, BackoffFunc |-> Func("nil", 0), TracerProvider |-> "nil", MeterProvider |-> "nil", Instruments |-> "nil"]

\* nothing has been created yet
NotCreated == [by |-> "none", client |-> "nil", err |-> "nil"]

\* no GetScalar call
NoScalar == [pc |-> "idle", node |-> "none", reply |-> [err |-> [text |-> "nil", expected |-> <<>>, got |-> <<>>], value |-> [kind |-> "nil", payload |-> <<>>]], gets |-> 0, result |-> [panic |-> FALSE, node |-> "nil", value |-> [kind |-> "nil", payload |-> <<>>], err |-> [text |-> "nil", expected |-> <<>>, got |-> <<>>]]]

ApiIdle ==
    /\ given = <<>>
    /\ clientOpts = ZeroOptions
    /\ created = NotCreated
    /\ wait = <<>>
    /\ scalar = NoScalar

CodecIdle ==
    /\ input = <<>>
    /\ fn = "idle"
    /\ res = NoResult

CodecInit ==
    /\ \/ input \in GeneralInputs
       \/ input \in ValueInputs
       \/ input \in SpecialInputs
    /\ fn = "none"
    /\ res = NoResult
    /\ TypesIdle
    /\ IdsIdle
    /\ EngineIdle
    /\ ApiIdle

Run1(name, result) ==
    /\ fn = "none"
    /\ fn' = name
    /\ res' = result
    /\ UNCHANGED <<input, typeVars, idVars, engineVars, apiVars>>

DecodeLength == Run1("decodeBERLength", decodeBERLength(input))

DecodeInt32 == Run1("decodeBERInt32", decodeBERInt32(input))

DecodeUInt32 == Run1("decodeBERUInt32", decodeBERUInt32(input))

DecodeUInt64 == Run1("decodeBERUInt64", decodeBERUInt64(input))

DecodeBytes == Run1("decodeBERBytes", decodeBERBytes(input))

DecodeValue == Run1("decodeBERValue", decodeBERValue(input))

CodecNext == DecodeLength \/ DecodeInt32 \/ DecodeUInt32 \/ DecodeUInt64 \/ DecodeBytes \/ DecodeValue

SpecCodec == CodecInit /\ [][CodecNext]_vars

----------------------------------------------------------------------------
(* The type system: the tag registry and the Tag() method of every kind.   *)

\* the kinds that have a Tag() method
Types == {"BooleanType", "IntegerType", "BitStringType", "OctetStringType", "ObjectIdentifierType", "ObjectDescriptionType", "IPAddressType", "Counter32Type", "Gauge32Type", "OpaqueType", "NsapAddressType", "Counter64Type", "UInteger32Type", "OpaqueFloatType", "OpaqueDoubleType", "NullType"}

\* func (t Counter32Type) Tag() int
Counter32TypeTag == tagIpAddress

\* t.Tag() for every kind t
Tag(t) ==
    CASE t = "BooleanType" -> tagBoolean
      [] t = "IntegerType" -> tagInteger
      [] t = "BitStringType" -> tagBitString
      [] t = "OctetStringType" -> tagOctetString
      [] t = "ObjectIdentifierType" -> tagObjectIdentifier
      [] t = "ObjectDescriptionType" -> tagObjectDescription
      [] t = "IPAddressType" -> tagIpAddress
      [] t = "Counter32Type" -> Counter32TypeTag
      [] t = "Gauge32Type" -> tagGauge32
      [] t = "OpaqueType" -> tagOpaque
      [] t = "NsapAddressType" -> tagNsapAddress
      [] t = "Counter64Type" -> tagCounter64
      [] t = "UInteger32Type" -> tagUTnteger32
      [] t = "OpaqueFloatType" -> tagOpaqueFloat
      [] t = "OpaqueDoubleType" -> tagOpaqueDouble
      [] t = "NullType" -> tagNull

\* the value structs of value.go whose Type() is one of the kinds above
Values == {"Boolean", "Integer", "BitString", "OctetString", "ObjectIdentifier", "ObjectDescription", "IPAddress", "Counter32", "Opaque", "NsapAddress", "Counter64", "UInteger32", "OpaqueFloat", "OpaqueDouble", "Null"}

\* v.Type() for every value v
Type(v) ==
    CASE v = "Boolean" -> "BooleanType"
      [] v = "Integer" -> "IntegerType"
      [] v = "BitString" -> "BitStringType"
      [] v = "OctetString" -> "OctetStringType"
      [] v = "ObjectIdentifier" -> "ObjectIdentifierType"
      [] v = "ObjectDescription" -> "ObjectDescriptionType"
      [] v = "IPAddress" -> "IPAddressType"
      [] v = "Counter32" -> "Counter32Type"
      [] v = "Opaque" -> "OpaqueType"
      [] v = "NsapAddress" -> "NsapAddressType"
      [] v = "Counter64" -> "Counter64Type"
      [] v = "UInteger32" -> "UInteger32Type"
      [] v = "OpaqueFloat" -> "OpaqueFloatType"
      [] v = "OpaqueDouble" -> "OpaqueDoubleType"
      [] v = "Null" -> "NullType"

\* assertSameType(a, b): the error returned, "nil" for none
assertSameType(a, b) == IF Tag(a) # Tag(b) THEN "type mismatch" ELSE "nil"

\* t.ValidateValue(v): NullType's method panics, every other calls assertSameType
ValidateValue(t, v) == IF t = "NullType" THEN "panic" ELSE assertSameType(Type(v), t)

TypesInit ==
    /\ typeA \in Types
    /\ typeB \in Types
    /\ tagA = -1
    /\ tagB = -1
    /\ val \in Values
    /\ validation = "none"
    /\ CodecIdle
    /\ IdsIdle
    /\ EngineIdle
    /\ ApiIdle

\* typeA.Tag()
TagOfA ==
    /\ typeA \in Types
    /\ tagA = -1
    /\ tagA' = Tag(typeA)
    /\ UNCHANGED <<typeA, typeB, tagB, val, validation, codecVars, idVars, engineVars, apiVars>>

\* typeB.Tag()
TagOfB ==
    /\ typeB \in Types
    /\ tagB = -1
    /\ tagB' = Tag(typeB)
    /\ UNCHANGED <<typeA, typeB, tagA, val, validation, codecVars, idVars, engineVars, apiVars>>

\* typeA.ValidateValue(val)
CallValidateValue ==
    /\ typeA \in Types
    /\ validation = "none"
    /\ validation' = ValidateValue(typeA, val)
    /\ UNCHANGED <<typeA, typeB, tagA, tagB, val, codecVars, idVars, engineVars, apiVars>>

TypesNext == TagOfA \/ TagOfB \/ CallValidateValue

SpecTypes == TypesInit /\ [][TypesNext]_vars

\* the tag the protocol's registry gives each kind
RegistryTag(t) ==
    CASE t = "BooleanType" -> 1
      [] t = "IntegerType" -> 2
      [] t = "BitStringType" -> 3
      [] t = "OctetStringType" -> 4
      [] t = "ObjectIdentifierType" -> 6
      [] t = "ObjectDescriptionType" -> 7
      [] t = "IPAddressType" -> 64
      [] t = "Counter32Type" -> 65
      [] t = "Gauge32Type" -> 66
      [] t = "OpaqueType" -> 68
      [] t = "NsapAddressType" -> 69
      [] t = "Counter64Type" -> 70
      [] t = "UInteger32Type" -> 71
      [] t = "OpaqueFloatType" -> 120
      [] t = "OpaqueDoubleType" -> 121
      [] t = "NullType" -> 5

\* C10: the Tag() results of two distinct kinds differ, and each Tag() is the
\* registry value of its kind.
C10_TagsUnique ==
    /\ (tagA # -1 /\ tagB # -1 /\ typeA # typeB) => tagA # tagB
    /\ tagA # -1 => tagA = RegistryTag(typeA)
    /\ tagB # -1 => tagB = RegistryTag(typeB)

\* C11: K.ValidateValue(v) returns a type-mismatch error when v's kind is not
\* K and no error when it is, for every kind K and value v, the null kind
\* included, and it always returns.
C11_ValidateValue == (validation # "none") => (validation = IF Type(val) = typeA THEN "nil" ELSE "type mismatch")

\* the statement of C11 for the kinds other than null, Counter32 and IP address
C11_HoldsElsewhere == (typeA \notin {"NullType", "Counter32Type", "IPAddressType"}) => C11_ValidateValue

----------------------------------------------------------------------------
(* What a length field says, read off the bytes and not off the decoder:   *)
(* numbers of any size are compared as big-endian byte strings without     *)
(* leading zeros.                                                          *)

RECURSIVE StripZeros(_)
StripZeros(bs) == IF bs # <<>> /\ bs[1] = 0 THEN StripZeros(Tail(bs)) ELSE bs

\* the value of at most three bytes
RECURSIVE BigEndian(_)
BigEndian(bs) == IF bs = <<>> THEN 0 ELSE BigEndian(SubSeq(bs, 1, Len(bs) - 1)) * 256 + bs[Len(bs)]

\* the number of length bytes a long-form first byte announces
FieldCount(b) == b[1] % 128

IsShortForm(b) == Len(b) > 0 /\ b[1] <= 127

IsIndefinite(b) == Len(b) > 0 /\ b[1] = 128

IsLongForm(b) == Len(b) > 0 /\ b[1] > 128

\* the input holds a whole definite length field
HasLengthField(b) == IsShortForm(b) \/ (IsLongForm(b) /\ FieldCount(b) <= Len(b) - 1)

\* the size of the length field
FieldSize(b) == IF IsShortForm(b) THEN 1 ELSE 1 + FieldCount(b)

\* the bytes whose big-endian value is the declared length
DeclaredBytes(b) == IF IsShortForm(b) THEN <<b[1]>> ELSE SubSeq(b, 2, 1 + FieldCount(b))

\* the input after its length field
AfterField(b) == SliceFrom(b, FieldSize(b))

\* the big-endian value of bs is the natural n (n < 2^24)
ValueIs(bs, n) == Len(StripZeros(bs)) <= 3 /\ BigEndian(StripZeros(bs)) = n

\* the big-endian value of bs exceeds the natural n (n < 2^24)
ValueExceeds(bs, n) == Len(StripZeros(bs)) > 3 \/ BigEndian(StripZeros(bs)) > n

\* the machine word w, read as a signed integer, is the big-endian value of bs
WordIsValue(w, bs) == ~IsNegative(w) /\ StripZeros(w) = StripZeros(bs)

\* bs padded with zero bytes on the left to n bytes
ZeroPad(bs, n) == Run(0, n - Len(bs)) \o bs

\* the two's-complement value of 1 to 4 bytes
TwosComplement(bs) == (IF bs[1] >= 128 THEN bs[1] - 256 ELSE bs[1]) * (256 ^ (Len(bs) - 1)) + BigEndian(Tail(bs))

LengthReaders == {"decodeBERLength", "decodeBERInt32", "decodeBERUInt32", "decodeBERUInt64", "decodeBERBytes"}

----------------------------------------------------------------------------
(* Claims about the codec, checked under SpecCodec. *)

\* C4: for every input whose first byte is 0x80, decodeBERLength and every
\* decoder that reads a length return an error (and do not abort).
C4_IndefiniteLengthRejected == (fn \in LengthReaders /\ IsIndefinite(input)) => (res.err /\ ~res.panic)

\* C5: whenever decodeBERLength returns no error, the returned length is at
\* most the number of bytes of the returned tail.
C5_LengthWithinRemaining == (fn = "decodeBERLength" /\ ~res.err) => ~GreaterThan(res.length, Len(res.tail))

\* C6: for a long-form length field of k bytes, decodeBERLength returns either
\* an error or exactly the mathematical big-endian value of the k bytes.
C6_NoWrappedLength == (fn = "decodeBERLength" /\ IsLongForm(input) /\ HasLengthField(input)) => (res.err \/ WordIsValue(res.length, DeclaredBytes(input)))

\* the length n is declared by the input: the length field's value is n, or
\* decodeBERLength reports n for it
Declares(b, n) == \/ HasLengthField(b) /\ ValueIs(DeclaredBytes(b), n)
                  \/ ~decodeBERLength(b).err /\ decodeBERLength(b).length = WordOfByte(n)

\* C7: for every declared length n in 1..4 with at least n bytes remaining,
\* decodeBERInt32 returns the two's-complement value of those n bytes (sign-
\* extended from bit 8n-1) and the input after the length field and the n bytes.
C7_Int32TwosComplement ==
    \A n \in 1..4 :
        (fn = "decodeBERInt32" /\ Declares(input, n) /\ Len(AfterField(input)) >= n)
        => /\ ~res.err
           /\ ~res.panic
           /\ res.value = TwosComplement(SubSeq(AfterField(input), 1, n))
           /\ res.tail = SliceFrom(AfterField(input), n)

\* C7 witness: 0x01 0xFF has decoded to -1 with an empty tail.
C7_Witness == fn = "decodeBERInt32" /\ input = <<1, 255>> /\ ~res.err /\ res.value = -1 /\ res.tail = <<>>

\* the bytes the declared length (below 2^24) covers
DeclaredPayload(b) == SubSeq(AfterField(b), 1, BigEndian(StripZeros(DeclaredBytes(b))))

\* the target size in bytes of the integer decoder that ran
IntegerSize == IF fn = "decodeBERUInt64" THEN 8 ELSE 4

\* the zero value of the integer decoder that ran
IntegerZero == IF fn = "decodeBERInt32" THEN 0 ELSE Run(0, IntegerSize)

\* the declared length of the input is one an integer decoder must refuse
BadIntegerLength == \/ ValueIs(DeclaredBytes(input), 0)
                    \/ ValueExceeds(DeclaredBytes(input), IntegerSize)
                    \/ ValueExceeds(DeclaredBytes(input), Len(AfterField(input)))

\* C8: on an input with a length field, the integer decoders fail with value 0
\* when the declared length is zero, exceeds the target size or exceeds the
\* bytes remaining; otherwise the unsigned decoders return the plain
\* big-endian value of the declared bytes.
C8_IntegerLengthChecks ==
    (fn \in {"decodeBERInt32", "decodeBERUInt32", "decodeBERUInt64"} /\ HasLengthField(input))
    => IF BadIntegerLength
       THEN ~res.panic /\ res.err /\ res.value = IntegerZero
       ELSE (fn # "decodeBERInt32")
            => /\ ~res.panic
               /\ ~res.err
               /\ res.value = ZeroPad(DeclaredPayload(input), IntegerSize)

\* the big-endian value of bs fits a non-negative 64-bit int (is below 2^63)
FitsInt(bs) == Len(StripZeros(bs)) < WordBytes \/ (Len(StripZeros(bs)) = WordBytes /\ StripZeros(bs)[1] < 128)

\* C9: empty input fails; a first byte L <= 0x7F yields L and consumes 1 byte;
\* a long-form first byte with k > 0 fails when fewer than k bytes follow and
\* otherwise yields the big-endian value of the next k bytes and consumes 1+k
\* (read with the overflow rule: a value that fits no int fails instead).
C9_DefiniteForms ==
    (fn = "decodeBERLength")
    => /\ (input = <<>>) => res.err
       /\ IsShortForm(input)
          => (~res.err /\ res.length = WordOfByte(input[1]) /\ res.tail = SliceFrom(input, 1))
       /\ (IsLongForm(input) /\ ~HasLengthField(input)) => res.err
       /\ (IsLongForm(input) /\ HasLengthField(input) /\ ~FitsInt(DeclaredBytes(input))) => res.err
       /\ (IsLongForm(input) /\ HasLengthField(input) /\ FitsInt(DeclaredBytes(input)))
          => /\ ~res.err
             /\ WordIsValue(res.length, DeclaredBytes(input))
             /\ res.tail = SliceFrom(input, 1 + FieldCount(input))

\* the length field of the input, if whole, holds a value below 2^64
NoWrap == HasLengthField(input) => Len(StripZeros(DeclaredBytes(input))) <= WordBytes

\* the statement of C8 on the inputs whose length field does not wrap
C8_HoldsWithoutWrap == NoWrap => C8_IntegerLengthChecks

\* the statement of C9 on the inputs whose length field does not wrap
C9_HoldsWithoutWrap == NoWrap => C9_DefiniteForms

----------------------------------------------------------------------------
(* Claims about decodeBERValue, checked under SpecCodec. *)

\* the natural c as big-endian bytes, without leading zeros
RECURSIVE BytesOf(_)
BytesOf(c) == IF c = 0 THEN <<>> ELSE BytesOf(c \div 256) \o <<c % 256>>

\* the product of the natural with big-endian bytes bs and the factor k <= 10^6, in full
RECURSIVE NatTimesFrom(_, _, _)
NatTimesFrom(bs, k, carry) ==
    IF bs = <<>> THEN BytesOf(carry)
    ELSE LET p == bs[Len(bs)] * k + carry
         IN  NatTimesFrom(SubSeq(bs, 1, Len(bs) - 1), k, p \div 256) \o <<p % 256>>

NatTimes(bs, k) == StripZeros(NatTimesFrom(bs, k, 0))

\* n hundredths of a second in nanoseconds: n * 10^7
HundredthsInNanoseconds(n) == NatTimes(NatTimes(n, 10000), 1000)

\* decodeBERValue ran on an input with the given tag byte
DecodedTag(t) == fn = "decodeBERValue" /\ Len(input) > 0 /\ input[1] = t

\* the input after its tag byte has a whole length field of value n, and n bytes after it
HasPayload(n) ==
    /\ HasLengthField(Tail(input))
    /\ ValueIs(DeclaredBytes(Tail(input)), n)
    /\ Len(AfterField(Tail(input))) >= n

\* the first n bytes after the length field
Payload(n) == SubSeq(AfterField(Tail(input)), 1, n)

\* C12: a time-ticks wire value n (1 to 4 bytes, unsigned) is decoded to the
\* duration of exactly n hundredths of a second, n * 10 milliseconds, as a
\* non-negative duration.
C12_TimeTicksDuration ==
    \A n \in 1..4 :
        (DecodedTag(67) /\ HasPayload(n))
        => /\ ~res.err
           /\ ~res.panic
           /\ res.value.kind = "TimeTicks"
           /\ WordIsValue(res.value.payload, HundredthsInNanoseconds(Payload(n)))

\* the statement of C12 with the duration the code computes, ten times the claimed one
C12_TenfoldDuration ==
    \A n \in 1..4 :
        (DecodedTag(67) /\ HasPayload(n))
        => /\ ~res.err
           /\ ~res.panic
           /\ res.value.kind = "TimeTicks"
           /\ WordIsValue(res.value.payload, NatTimes(HundredthsInNanoseconds(Payload(n)), 10))

\* the tags decodeBERValue is to dispatch on
DispatchedTags == {2, 71, 4, 6, 64, 65, 66, 67, 68, 70, 5, 128, 129, 130}

\* the errors of a malformed encoding: a bad length, a truncated payload
MalformedTexts == {"no data", "length of length is longer than the remaining data", "negative length (overflow)", "zero-length integer", "integer too large", "truncated integer", "truncated bytes"}

\* C13: on a first byte that is no dispatched tag, decodeBERValue returns an
\* unsupported-type error, no value and the input unchanged as tail; that
\* error is none of the malformed-encoding errors, and no dispatched tag
\* produces it; on empty input it returns an error.
C13_UnsupportedTag ==
    (fn = "decodeBERValue")
    => /\ (input = <<>>) => (res.err /\ res.value = Nil)
       /\ (input # <<>> /\ input[1] \notin DispatchedTags)
          => /\ res.err
             /\ ~res.panic
             /\ res.value = Nil
             /\ res.tail = input
             /\ res.msg = "unsupported type tag"
             /\ res.msg \notin MalformedTexts
       /\ (input # <<>> /\ input[1] \in DispatchedTags) => res.msg # "unsupported type tag"

\* C13 witness: the bit-string tag 0x03, which has no decoder, was refused
\* with the whole input as tail.
C13_Witness ==
    /\ fn = "decodeBERValue"
    /\ input = <<3, 1, 0>>
    /\ res.err
    /\ res.msg = "unsupported type tag"
    /\ res.tail = <<3, 1, 0>>

\* a truncated integer under a dispatched tag was refused with a different error
C13_MalformedSeen ==
    /\ fn = "decodeBERValue"
    /\ input = <<2, 4, 1>>
    /\ res.err
    /\ res.msg = "truncated integer"

\* the first two sub-identifiers packed in the byte b: X = b div 40 capped to 2, Y = b - 40 * X
FirstTwo(b) == LET X == IF b \div 40 > 2 THEN 2 ELSE b \div 40 IN <<X, b - 40 * X>>

\* the sub-identifiers of the base-128 groups of bs, acc being the value of
\* the group under way; every group is closed by a byte below 128
RECURSIVE Groups(_, _)
Groups(bs, acc) ==
    IF bs = <<>> THEN <<>>
    ELSE IF bs[1] >= 128 THEN Groups(Tail(bs), acc * 128 + (bs[1] - 128))
    ELSE <<acc * 128 + bs[1]>> \o Groups(Tail(bs), 0)

\* the length of the longest base-128 group of bs, run being the length of the group under way
RECURSIVE LongestGroup(_, _)
LongestGroup(bs, run) ==
    IF bs = <<>> THEN run
    ELSE IF bs[1] >= 128 THEN LongestGroup(Tail(bs), run + 1)
    ELSE LET rest == LongestGroup(Tail(bs), 0)
         IN  IF run + 1 > rest THEN run + 1 ELSE rest

\* the last group of the payload is closed and no group has more than four
\* bytes (28 bits, so that every sub-identifier fits 32 bits)
WellFormedIdentifier(p) == p # <<>> /\ p[Len(p)] < 128 /\ LongestGroup(Tail(p), 0) <= 4

\* the last group of the payload is left open at the end of the declared length
Unterminated(p) == p # <<>> /\ Len(p) > 1 /\ p[Len(p)] >= 128

\* C14: a well-formed packed identifier is decoded to its sub-identifiers
\* (the first byte gives the first two, each base-128 group one more), and a
\* payload whose last group is unterminated is refused.
C14_IdentifierDecode ==
    \A n \in 1..(MaxValueLen + 1) :
        (DecodedTag(6) /\ HasPayload(n))
        => /\ ~res.panic
           /\ WellFormedIdentifier(Payload(n))
              => /\ ~res.err
                 /\ res.value = NewObjectIdentifier(FirstTwo(Payload(n)[1]) \o Groups(Tail(Payload(n)), 0))
                 /\ res.tail = SliceFrom(AfterField(Tail(input)), n)
           /\ Unterminated(Payload(n)) => res.err

\* every identifier input is refused, the well-formed ones included
C14_NeverDecoded == DecodedTag(6) => (res.err /\ res.value = Nil /\ res.msg = "not implemented")

\* C15: for every value v of a kind the decoder dispatches on, the boundary
\* payloads included, decoding the wire form of v returns v: the same kind
\* and the same payload.
C15_RoundTrip ==
    (fn = "decodeBERValue")
    => \A v \in RoundTripValues : (input = Encode(v)) => (~res.err /\ ~res.panic /\ res.value = v)

\* the statement of C15 for the kinds other than identifier, IP address and time-ticks
C15_HoldsForOtherKinds ==
    (fn = "decodeBERValue")
    => \A v \in RoundTripValues :
          (input = Encode(v) /\ v.kind \notin {"ObjectIdentifier", "IPAddress", "TimeTicks"})
          => (~res.err /\ ~res.panic /\ res.value = v)

\* the wire forms of the largest unsigned 32-bit and 64-bit values are among the inputs decoded
C15_BoundariesSeen ==
    /\ fn = "decodeBERValue"
    /\ input \in {<<71, 4, 255, 255, 255, 255>>, <<70, 8, 255, 255, 255, 255, 255, 255, 255, 255>>, <<2, 4, 128, 0, 0, 0>>}
    /\ ~res.err

----------------------------------------------------------------------------
(* Identifiers (oid.go). *)

\* a prefix test that looks at the first sub-identifier only
IsRootOfFirstOnly(o, other) == Len(o) <= Len(other) /\ (Len(o) > 0 => o[1] = other[1])

\* o.IsRootOf(other): o is a prefix of other
IsRootOf(o, other) == Len(o) <= Len(other) /\ \A i \in 1..Len(o) : o[i] = other[i]

\* an equality test that stops at the shorter of the two
EqualsUpToLength(o, other) == \A i \in 1..(IF Len(o) < Len(other) THEN Len(o) ELSE Len(other)) : o[i] = other[i]

\* o.Equals(other)
Equals(o, other) == Len(o) = Len(other) /\ \A i \in 1..Len(o) : o[i] = other[i]

\* o.IsChildOf(other): other.IsRootOf(o)
IsChildOf(o, other) == IsRootOf(other, o)

\* the sub-identifiers of an OID handed to Validate are Go ints: 64-bit words

\* v > 2, v < 0 and v > math.MaxUint32 for a word v
AboveTwo(v) == GreaterThan(v, 2)

AboveMaxUint32(v) == ~IsNegative(v) /\ \E i \in 1..4 : v[i] # 0

\* an error of Validate: its text and the index it names (-1 for none)
OidError(t, i) == [text |-> t, index |-> i]

\* the switch of Validate on the sub-identifier at 0-based index i: the first case that matches
validateCase(i, v) ==
    IF i = 0 /\ AboveTwo(v) THEN <<OidError("first sub-identifier must be 0, 1, or 2", 0)>>
    ELSE IF IsNegative(v) THEN <<OidError("must be non-negative", i)>>
    ELSE IF AboveMaxUint32(v) THEN <<OidError("must be less than or equal to MaxUint32", i)>>
    ELSE <<>>

\* for i, v := range o { switch ... }, from the 0-based index i on
RECURSIVE validateLoop(_, _)
validateLoop(o, i) == IF i >= Len(o) THEN <<>> ELSE validateCase(i, o[i + 1]) \o validateLoop(o, i + 1)

\* o.Validate(): the errors joined, <<>> for nil
Validate(o) ==
    IF Len(o) < 2 THEN <<OidError("must have at least two sub-identifiers", -1)>>
    ELSE validateLoop(o, 0)

\* o.IsValid()
IsValid(o) == Validate(o) = <<>>

\* the characters '0' to '9', in order
DigitChars == <<"0", "1", "2", "3", "4", "5", "6", "7", "8", "9">>

IsDigit(c) == \E d \in 1..10 : DigitChars[d] = c

\* int(c - '0')
DigitOf(c) == (CHOOSE d \in 1..10 : DigitChars[d] = c) - 1

\* what ParseOID returns: the OID (<<>> for nil) and the error (<<>> for nil)
Parsed(o, e) == [oid |-> o, err |-> e]

\* the loop of ParseOID from the 0-based index i on, with the OID and the
\* value v built so far, and the return after it
RECURSIVE parseLoop(_, _, _, _)
parseLoop(s, i, oid, v) ==
    IF i >= Len(s) THEN Parsed(Append(oid, v), Validate(Append(oid, v)))
    ELSE IF s[i + 1] = "."
         THEN IF i = Len(s) - 1 THEN Parsed(<<>>, <<OidError("trailing dot", i)>>)
              ELSE IF i > 0
                   THEN IF s[i] = "." THEN Parsed(<<>>, <<OidError("consecutive dot", i)>>)
                        ELSE parseLoop(s, i + 1, Append(oid, v), Zero64)
                   ELSE parseLoop(s, i + 1, oid, v)
    ELSE IF IsDigit(s[i + 1]) THEN parseLoop(s, i + 1, oid, timesLoop(v, 10, DigitOf(s[i + 1])))
    ELSE Parsed(<<>>, <<OidError("invalid character", i)>>)

ParseOID(s) == parseLoop(s, 0, <<>>, Zero64)

\* -v for a word v, as uint64(-v): every bit flipped, then one added
Negate64(v) == timesLoop([i \in 1..WordBytes |-> 255 - v[i]], 1, 1)

\* u / 10 for an unsigned word u, rem being the remainder carried in
RECURSIVE quotientLoop(_, _)
quotientLoop(bs, rem) ==
    IF bs = <<>> THEN <<>>
    ELSE <<(rem * 256 + bs[1]) \div 10>> \o quotientLoop(Tail(bs), (rem * 256 + bs[1]) % 10)

\* u % 10 for an unsigned word u
RECURSIVE remainderLoop(_, _)
remainderLoop(bs, rem) == IF bs = <<>> THEN rem ELSE remainderLoop(Tail(bs), (rem * 256 + bs[1]) % 10)

\* the decimal digits of an unsigned word, none for zero
RECURSIVE digitsOf(_)
digitsOf(u) ==
    IF u = Zero64 THEN <<>>
    ELSE Append(digitsOf(quotientLoop(u, 0)), DigitChars[remainderLoop(u, 0) + 1])

\* strconv.Itoa(v): the decimal form of the signed word v
Itoa(v) ==
    IF v = Zero64 THEN <<"0">>
    ELSE IF IsNegative(v) THEN <<"-">> \o digitsOf(Negate64(v))
    ELSE digitsOf(v)

\* a String that writes the dot after every sub-identifier
RECURSIVE StringTrailingDot(_)
StringTrailingDot(o) == IF o = <<>> THEN <<>> ELSE Itoa(o[1]) \o <<".">> \o StringTrailingDot(Tail(o))

\* for i, v := range o { if i > 0 { '.' }; Itoa(v) }, from the 0-based index i on
RECURSIVE stringLoop(_, _)
stringLoop(o, i) ==
    IF i >= Len(o) THEN <<>>
    ELSE (IF i > 0 THEN <<".">> ELSE <<>>) \o Itoa(o[i + 1]) \o stringLoop(o, i + 1)

\* o.String()
String(o) == stringLoop(o, 0)

----------------------------------------------------------------------------
(* ParseOID, Validate and IsValid as a state machine: a string or an OID   *)
(* is chosen, one function runs on it.                                     *)

\* the longest OID
MaxOidLen == 2

\* the longest of the general strings
MaxTextLen == 5

\* the characters of the general strings
TextChars == {"0", "1", "3", ".", "-"}

GeneralTexts == SeqsUpTo(TextChars, MaxTextLen)

\* the characters of a string of decimal digits
Chars(ds) == [i \in 1..Len(ds) |-> DigitChars[ds[i] + 1]]

\* digit groups around 2^32, 2^63 and 2^64, and one with leading zeros
LongGroups == {
    Chars(<<4, 2, 9, 4, 9, 6, 7, 2, 9, 5>>),
    Chars(<<4, 2, 9, 4, 9, 6, 7, 2, 9, 6>>),
    Chars(<<0, 4, 2, 9, 4, 9, 6, 7, 2, 9, 5>>),
    Chars(<<9, 2, 2, 3, 3, 7, 2, 0, 3, 6, 8, 5, 4, 7, 7, 5, 8, 0, 7>>),
    Chars(<<9, 2, 2, 3, 3, 7, 2, 0, 3, 6, 8, 5, 4, 7, 7, 5, 8, 0, 8>>),
    Chars(<<1, 8, 4, 4, 6, 7, 4, 4, 0, 7, 3, 7, 0, 9, 5, 5, 1, 6, 1, 5>>),
    Chars(<<1, 8, 4, 4, 6, 7, 4, 4, 0, 7, 3, 7, 0, 9, 5, 5, 1, 6, 1, 6>>),
    Chars(<<1, 8, 4, 4, 6, 7, 4, 4, 0, 7, 3, 7, 0, 9, 5, 5, 1, 6, 1, 7>>),
    Chars(<<0, 0, 0, 0, 0, 0, 0, 0, 0, 0, 0, 0, 0, 0, 0, 0, 0, 0, 0, 0, 0, 0, 1>>)}

\* a long group at the start, in the middle or at the end of a string
LongTexts == {pre \o g \o post : pre \in {<<>>, <<"1", ".">>, <<".", "1", ".">>}, g \in LongGroups, post \in {<<>>, <<".", "1">>, <<".">>}}

\* the strings of the table of TestParseOID that are longer than the general ones
TestTexts == {<<"1", ".", "3", ".", "6", ".", "1", ".", "2", ".", "1">>, <<"1", ".", "3", ".", "6", ".", "1", ".", "2", ".", "1", ".">>}

Texts == GeneralTexts \cup LongTexts \cup TestTexts

\* the sub-identifiers of the OIDs handed to Validate: -1, 0, 1, 2, 3, 2^32-1, 2^32
ElementWords == {MinusOne64, Zero64, WordOfByte(1), WordOfByte(2), WordOfByte(3), <<0, 0, 0, 0, 255, 255, 255, 255>>, <<0, 0, 0, 1, 0, 0, 0, 0>>}

ValidateInputs == SeqsUpTo(ElementWords, MaxOidLen)

OidInit ==
    /\ \/ text \in Texts /\ oidA = <<>>
       \/ text = <<>> /\ oidA \in ValidateInputs
    /\ oidB = <<>>
    /\ oidC = <<>>
    /\ rel = <<>>
    /\ idFn = "none"
    /\ idRes = <<>>
    /\ CodecIdle
    /\ TypesIdle
    /\ EngineIdle
    /\ ApiIdle

RunId(name, result) ==
    /\ idFn = "none"
    /\ idFn' = name
    /\ idRes' = result
    /\ UNCHANGED <<oidA, oidB, oidC, rel, text, codecVars, typeVars, engineVars, apiVars>>

CallParseOID == RunId("ParseOID", ParseOID(text))

CallValidate == RunId("Validate", Validate(oidA))

CallIsValid == RunId("IsValid", IsValid(oidA))

\* oidA.String()
CallString == RunId("String", String(oidA))

\* a second call on what the first one returned
Then(first, name, result) ==
    /\ idFn = first
    /\ idFn' = name
    /\ idRes' = result
    /\ UNCHANGED <<oidA, oidB, oidC, rel, text, codecVars, typeVars, engineVars, apiVars>>

\* oid, err := ParseOID(text); oid.String()
StringOfParsed == Then("ParseOID", "ParseOID.String", String(idRes.oid))

\* oid, err := ParseOID(oidA.String()); oid.Equals(oidA)
ParseString == Then("String", "String.ParseOID", [parsed |-> ParseOID(idRes), equals |-> Equals(ParseOID(idRes).oid, oidA)])

OidNext == CallParseOID \/ CallValidate \/ CallIsValid \/ CallString \/ StringOfParsed \/ ParseString

SpecOid == OidInit /\ [][OidNext]_vars

----------------------------------------------------------------------------
(* Equals, IsRootOf and IsChildOf as a state machine: three OIDs are       *)
(* chosen, the methods are called on pairs of them in any order, and rel   *)
(* keeps what each call returned.                                          *)

OidInputs == SeqsUpTo(1..2, MaxOidLen)

\* the OID a letter stands for
Oid(x) == CASE x = "A" -> oidA [] x = "B" -> oidB [] x = "C" -> oidC

RelInit ==
    /\ oidA \in OidInputs
    /\ oidB \in OidInputs
    /\ oidC \in OidInputs
    /\ rel = <<>>
    /\ text = <<>>
    /\ idFn = "idle"
    /\ idRes = <<>>
    /\ CodecIdle
    /\ TypesIdle
    /\ EngineIdle
    /\ ApiIdle

\* the call named key returns result
Record(key, result) ==
    /\ key \notin DOMAIN rel
    /\ rel' = (key :> result) @@ rel
    /\ UNCHANGED <<oidA, oidB, oidC, text, idFn, idRes, codecVars, typeVars, engineVars, apiVars>>

CallEquals == \E p \in {<<"A", "B">>, <<"B", "A">>} : Record(<<"Equals", p[1], p[2]>>, Equals(Oid(p[1]), Oid(p[2])))

CallIsRootOf == \E p \in {<<"A", "B">>, <<"B", "C">>, <<"A", "C">>, <<"B", "A">>} : Record(<<"IsRootOf", p[1], p[2]>>, IsRootOf(Oid(p[1]), Oid(p[2])))

CallIsChildOf == \E p \in {<<"A", "B">>} : Record(<<"IsChildOf", p[1], p[2]>>, IsChildOf(Oid(p[1]), Oid(p[2])))

RelNext == CallEquals \/ CallIsRootOf \/ CallIsChildOf

SpecOidRel == RelInit /\ [][RelNext]_vars

\* the lexicographic order in which an agent holds its leaves
OidLess(a, b) == \E i \in 1..Len(b) : /\ i <= Len(a) + 1
                                      /\ \A j \in 1..(i - 1) : a[j] = b[j]
                                      /\ (i > Len(a) \/ a[i] < b[i])

----------------------------------------------------------------------------
(* The protocol engine behind the Client interface: Get, Set and Walk over *)
(* a transport that may time out, against an agent holding a fixed tree.   *)

\* the largest NumRetries a client is configured with
MaxRetries == 1

\* the number of second-level branches of the agent's tree
MibWidth == 2

\* the batch size of a bulk-fetch (max-repetitions)
MaxRepetitions == 2

\* the callers that use the one client concurrently
Callers == {"a", "b"}

\* the leaves of the agent, and the roots the calls address
Leaves == {<<1, a, b>> : a \in 1..MibWidth, b \in 1..2} \cup {<<2, 1>>}

Roots == {<<1>>, <<1, 1>>, <<1, 1, 2>>, <<2>>}

\* a leaf of a response; the end-of-MIB-view sentinel has end = TRUE
Entry(o) == [oid |-> o, end |-> FALSE]

EndOfMibView(o) == [oid |-> o, end |-> TRUE]

\* the agent's answer to fetch-next: the first leaf after the cursor
NextEntry(cursor) ==
    LET after == {l \in Leaves : OidLess(cursor, l)}
    IN  IF after = {} THEN EndOfMibView(cursor)
        ELSE Entry(CHOOSE l \in after : \A m \in after : l = m \/ OidLess(l, m))

GetNext(cursor) == <<NextEntry(cursor)>>

\* the agent's answer to bulk-fetch: up to n consecutive leaves after the cursor
RECURSIVE GetBulk(_, _)
GetBulk(cursor, n) ==
    IF n = 0 THEN <<>>
    ELSE LET e == NextEntry(cursor)
         IN  IF e.end THEN <<e>> ELSE <<e>> \o GetBulk(e.oid, n - 1)

IdleCall == [pc |-> "idle", op |-> "none", kind |-> "none", cursor |-> <<>>, log |-> <<>>, waits |-> 0, batch |-> <<>>, delivered |-> <<>>, recv |-> <<>>, rounds |-> 0, result |-> "none", bulkTrips |-> 0, lateBulk |-> 0, late |-> FALSE]

\* the request a call issues next: a walk uses bulk-fetch unless the cache says unsupported
RequestKind(op, cache) == IF op = "walk" THEN (IF cache = "unsupported" THEN "next" ELSE "bulk") ELSE op

\* a retry bound that is one too large
MayRetryOnceMore(attempts, retries) == attempts <= retries + 1

\* after `attempts` timed-out attempts of one round-trip, another attempt is made
MayRetry(attempts, retries) == attempts <= retries

\* only a timeout is followed by another attempt of the same round-trip
Retried(outcome) == outcome = "timeout"

\* a cache that every response overwrites
CacheOverwritten(cache, kind, outcome) == IF outcome = "rejected" THEN "unsupported" ELSE "supported"

\* the cache after a response to a request of the given kind: written once, from unknown
CacheAfter(cache, kind, outcome) ==
    IF cache # "unknown" \/ kind # "bulk" THEN cache
    ELSE IF outcome = "rejected" THEN "unsupported"
    ELSE "supported"

\* the entries of a batch up to and excluding the first that ends the walk
RECURSIVE InSubtree(_, _)
InSubtree(r, batch) ==
    IF batch = <<>> \/ batch[1].end \/ ~IsRootOf(r, batch[1].oid) THEN <<>>
    ELSE <<batch[1].oid>> \o InSubtree(r, Tail(batch))

EngineInit ==
    /\ root \in Roots
    /\ supportsBulk \in BOOLEAN
    /\ numRetries \in 0..MaxRetries
    /\ bulkCache = "unknown"
    /\ cacheHistory = <<"unknown">>
    /\ call = [c \in Callers |-> IdleCall]
    /\ CodecIdle
    /\ TypesIdle
    /\ IdsIdle
    /\ ApiIdle

\* the state of a call that has just been made
Started(op) == [IdleCall EXCEPT !.pc = "send", !.op = op, !.cursor = root, !.late = (bulkCache = "unsupported")]

Get(c) ==
    /\ call[c].pc = "idle"
    /\ call' = [call EXCEPT ![c] = Started("get")]
    /\ UNCHANGED <<root, supportsBulk, numRetries, bulkCache, cacheHistory, codecVars, typeVars, idVars, apiVars>>

Set(c) ==
    /\ call[c].pc = "idle"
    /\ call' = [call EXCEPT ![c] = Started("set")]
    /\ UNCHANGED <<root, supportsBulk, numRetries, bulkCache, cacheHistory, codecVars, typeVars, idVars, apiVars>>

Walk(c) ==
    /\ call[c].pc = "idle"
    /\ call' = [call EXCEPT ![c] = Started("walk")]
    /\ UNCHANGED <<root, supportsBulk, numRetries, bulkCache, cacheHistory, codecVars, typeVars, idVars, apiVars>>

\* one attempt is sent: the first of a new round-trip, or one more after a backoff
Send(c) ==
    LET k == call[c]
        fresh == k.log = <<>> \/ ~Retried(k.log[Len(k.log)])
        kind == IF fresh THEN RequestKind(k.op, bulkCache) ELSE k.kind
    IN  /\ k.pc = "send"
        /\ call' = [call EXCEPT ![c] = [k EXCEPT !.pc = "inflight", !.kind = kind,
                                                 !.log = IF fresh THEN <<>> ELSE k.log,
                                                 !.waits = IF fresh THEN 0 ELSE k.waits,
                                                 !.bulkTrips = IF fresh /\ kind = "bulk" THEN k.bulkTrips + 1 ELSE k.bulkTrips,
                                                 !.lateBulk = IF fresh /\ kind = "bulk" /\ bulkCache = "unsupported" THEN k.lateBulk + 1 ELSE k.lateBulk]]
        /\ UNCHANGED <<root, supportsBulk, numRetries, bulkCache, cacheHistory, codecVars, typeVars, idVars, apiVars>>

\* no response within the timeout
Timeout(c) ==
    LET k == call[c]
        log == Append(k.log, "timeout")
    IN  /\ k.pc = "inflight"
        /\ call' = [call EXCEPT ![c] = IF MayRetry(Len(log), numRetries)
                                       THEN [k EXCEPT !.pc = "backoff", !.log = log]
                                       ELSE [k EXCEPT !.pc = "done", !.log = log, !.result = "timeout"]]
        /\ UNCHANGED <<root, supportsBulk, numRetries, bulkCache, cacheHistory, codecVars, typeVars, idVars, apiVars>>

\* the wait BackoffFunc gives, before the next attempt
Backoff(c) ==
    /\ call[c].pc = "backoff"
    /\ call' = [call EXCEPT ![c].pc = "send", ![c].waits = @ + 1]
    /\ UNCHANGED <<root, supportsBulk, numRetries, bulkCache, cacheHistory, codecVars, typeVars, idVars, apiVars>>

\* the agent answers with an error status
AgentError(c) ==
    /\ call[c].pc = "inflight"
    /\ call' = [call EXCEPT ![c].pc = "done", ![c].log = Append(@, "error"), ![c].result = "agentError"]
    /\ UNCHANGED <<root, supportsBulk, numRetries, bulkCache, cacheHistory, codecVars, typeVars, idVars, apiVars>>

\* the agent answers the request in flight
Respond(c) ==
    LET k == call[c]
        outcome == IF k.kind = "bulk" /\ ~supportsBulk THEN "rejected" ELSE "response"
        batch == IF outcome = "rejected" \/ k.kind \in {"get", "set"} THEN <<>>
                 ELSE IF k.kind = "bulk" THEN GetBulk(k.cursor, MaxRepetitions)
                 ELSE GetNext(k.cursor)
        cache == CacheAfter(bulkCache, k.kind, outcome)
    IN  /\ k.pc = "inflight"
        /\ call' = [call EXCEPT ![c] = [k EXCEPT !.log = Append(k.log, outcome),
                                                 !.pc = IF outcome = "rejected" THEN "send"
                                                        ELSE IF k.op = "walk" THEN "deliver" ELSE "done",
                                                 !.result = IF k.op = "walk" THEN k.result ELSE "ok",
                                                 !.batch = batch,
                                                 !.rounds = IF outcome = "rejected" THEN k.rounds ELSE k.rounds + 1,
                                                 !.recv = k.recv \o batch]]
        /\ bulkCache' = cache
        /\ cacheHistory' = IF cache = bulkCache THEN cacheHistory ELSE Append(cacheHistory, cache)
        /\ UNCHANGED <<root, supportsBulk, numRetries, codecVars, typeVars, idVars, apiVars>>

\* the entries of the last response go to the callback, in order
Deliver(c) ==
    LET k == call[c]
        leaves == InSubtree(root, k.batch)
    IN  /\ k.pc = "deliver"
        /\ \E failAt \in 0..Len(leaves) :
             call' = [call EXCEPT ![c] =
                 IF failAt > 0
                 THEN [k EXCEPT !.pc = "done", !.result = "callbackError", !.batch = <<>>,
                                !.delivered = k.delivered \o SubSeq(leaves, 1, failAt)]
                 ELSE IF Len(leaves) < Len(k.batch)
                 THEN [k EXCEPT !.pc = "done", !.result = "ok", !.batch = <<>>,
                                !.delivered = k.delivered \o leaves]
                 ELSE [k EXCEPT !.pc = "send", !.batch = <<>>, !.cursor = leaves[Len(leaves)],
                                !.delivered = k.delivered \o leaves]]
        /\ UNCHANGED <<root, supportsBulk, numRetries, bulkCache, cacheHistory, codecVars, typeVars, idVars, apiVars>>

Next == \E c \in Callers : Get(c) \/ Set(c) \/ Walk(c) \/ Send(c) \/ Timeout(c) \/ Backoff(c) \/ AgentError(c) \/ Respond(c) \/ Deliver(c)

Spec == EngineInit /\ [][Next]_vars

----------------------------------------------------------------------------
(* Claims about the protocol engine, checked under Spec. *)

\* r is a prefix of id
HasPrefix(id, r) == Len(r) <= Len(id) /\ SubSeq(id, 1, Len(r)) = r

\* the identifiers of S in ascending order
RECURSIVE Ascending(_)
Ascending(S) ==
    IF S = {} THEN <<>>
    ELSE LET m == CHOOSE x \in S : \A y \in S : x = y \/ OidLess(x, y)
         IN  <<m>> \o Ascending(S \ {m})

\* the leaves a walk of r is to deliver
SubtreeLeaves(r) == Ascending({l \in Leaves : HasPrefix(l, r) /\ l # r})

\* the round-trips a successful walk that delivered n leaves needs
RoundsNeeded(n) == IF supportsBulk THEN (n \div MaxRepetitions) + 1 ELSE n + 1

AllTimeouts(log) == \A i \in 1..Len(log) : log[i] = "timeout"

\* C3: a round-trip is attempted at most NumRetries+1 times; only a timeout is
\* followed by another attempt; an exchange answered after t timeouts had
\* exactly t backoff waits; a timeout error comes after exactly NumRetries+1
\* timed-out attempts.
C3_RetryAccounting ==
    \A c \in Callers :
        LET k == call[c]
            n == Len(k.log)
        IN  /\ n <= numRetries + 1
            /\ AllTimeouts(SubSeq(k.log, 1, n - 1))
            /\ (n > 0 /\ k.log[n] # "timeout") => k.waits = n - 1
            /\ (k.pc = "done" /\ k.result # "timeout") => (n > 0 /\ k.log[n] # "timeout")
            /\ (k.result = "timeout") => (n = numRetries + 1 /\ AllTimeouts(k.log) /\ k.waits = numRetries)

\* C3 witness: an exchange answered after NumRetries > 0 timeouts, with
\* NumRetries waits, while another call ended in a timeout error.
C3_Witness ==
    \E c, d \in Callers :
        /\ numRetries > 0
        /\ Len(call[c].log) = numRetries + 1
        /\ call[c].log[numRetries + 1] = "response"
        /\ call[c].waits = numRetries
        /\ call[d].result = "timeout"

----------------------------------------------------------------------------
(* The client options of client.go: NewClient, NewClientWithOptions, the   *)
(* options a caller hands to NewClient, and the backoff function they      *)
(* leave in ClientOptions.  A time.Duration is a 64-bit word of            *)
(* nanoseconds.                                                            *)

\* the most options handed to one NewClient call
MaxOptions == 2

\* the largest base handed to WithExponentialBackoff
MaxBase == 3

\* the largest number of retries BackoffFunc is called with
MaxAttempts == 3

\* time.Duration(w) * time.Second, time.Second being 1000 * time.Millisecond
Seconds(w) == Times64(Times64(w, 1000), Millisecond)

\* a ^ b for two bytes: Go's ^ of two operands is the exclusive or, bit by bit
RECURSIVE xorBits(_, _)
xorBits(a, b) == IF a = 0 /\ b = 0 THEN 0 ELSE ((a + b) % 2) + 2 * xorBits(a \div 2, b \div 2)

\* x ^ y for two words
Xor64(x, y) == [i \in 1..WordBytes |-> xorBits(x[i], y[i])]

\* what a call of a func value returns: a duration, or the panic of calling nil
Waited(d) == [panic |-> FALSE, d |-> d]

NilCall == [panic |-> TRUE, d |-> Zero64]

\* f(retries) for the BackoffFunc f: the closure of WithExponentialBackoff
\* returns time.Duration(base^retries) * time.Second; the caller's own
\* function here waits one second whatever the number of retries
callBackoffFunc(f, retries) ==
    CASE f.kind = "exponential" -> Waited(Seconds(Xor64(WordOfByte(f.base), WordOfByte(retries))))
      [] f.kind = "caller" -> Waited(Seconds(WordOfByte(1)))
      [] f.kind = "nil" -> NilCall

\* a ClientOption: the With... function that made it and its argument, a
\* number (seconds, retries, base) or a string (function, provider, community)
Option(name, n, s) == [name |-> name, n |-> n, s |-> s]

\* opt(&o) for each of the With... functions
apply(opt, o) ==
    CASE opt.name = "WithTimeout" -> [o EXCEPT !.Timeout = Seconds(WordOfByte(opt.n))]
      [] opt.name = "WithNumRetries" -> [o EXCEPT !.NumRetries = opt.n]
      [] opt.name = "WithBackoffFunc" -> [o EXCEPT !.BackoffFunc = Func(opt.s, 0)]
      [] opt.name = "WithExponentialBackoff" -> [o EXCEPT !.BackoffFunc = Func("exponential", opt.n)]
      [] opt.name = "WithTracerProvider" -> [o EXCEPT !.TracerProvider = opt.s]
      [] opt.name = "WithMeterProvider" -> [o EXCEPT !.MeterProvider = opt.s]
      [] opt.name = "WithCommunity" -> [o EXCEPT !.V2c = opt.s]

\* for _, opt := range opts { opt(&defaultOpts) }
RECURSIVE applyLoop(_, _)
applyLoop(opts, o) == IF opts = <<>> THEN o ELSE applyLoop(Tail(opts), apply(opts[1], o))

\* defaultOpts of NewClient, before WithExponentialBackoff(2) is applied to it
defaultOpts(target) == [ZeroOptions EXCEPT !.Target = target, !.V2c = "public", !.Timeout = Seconds(WordOfByte(3)), !.NumRetries = 3]

\* NewClientWithOptions(opts), called from by
NewClientWithOptions(opts, by) == [by |-> by, client |-> "nil", err |-> "nil"]

\* the options a caller hands to NewClient
Options ==
    {Option("WithTimeout", 1, ""), Option("WithNumRetries", 0, ""), Option("WithNumRetries", 5, ""),
     Option("WithBackoffFunc", 0, "caller"), Option("WithBackoffFunc", 0, "nil"),
     Option("WithTracerProvider", 0, "tracers"), Option("WithMeterProvider", 0, "meters"),
     Option("WithCommunity", 0, "private")}
    \cup {Option("WithExponentialBackoff", b, "") : b \in 0..MaxBase}

\* the options a caller hands to NewClientWithOptions
DirectOptions == {ZeroOptions, [ZeroOptions EXCEPT !.Target = "agent", !.V2c = "public"], [ZeroOptions EXCEPT !.Target = "agent", !.V3 = "user", !.BackoffFunc = Func("caller", 0)]}

ClientInit ==
    /\ ApiIdle
    /\ CodecIdle
    /\ TypesIdle
    /\ IdsIdle
    /\ EngineIdle

\* NewClient(target, opts...)
NewClient ==
    /\ created.by = "none"
    /\ \E opts \in SeqsUpTo(Options, MaxOptions) :
           /\ given' = opts
           /\ clientOpts' = applyLoop(opts, apply(Option("WithExponentialBackoff", 2, ""), defaultOpts("agent")))
           /\ created' = NewClientWithOptions(clientOpts', "NewClient")
    /\ UNCHANGED <<wait, scalar, codecVars, typeVars, idVars, engineVars>>

\* NewClientWithOptions(opts), called by the caller
CallNewClientWithOptions ==
    /\ created.by = "none"
    /\ \E opts \in DirectOptions :
           /\ clientOpts' = opts
           /\ created' = NewClientWithOptions(opts, "NewClientWithOptions")
    /\ UNCHANGED <<given, wait, scalar, codecVars, typeVars, idVars, engineVars>>

\* opts.BackoffFunc(retries), once for a number of retries
CallBackoffFunc ==
    /\ created.by # "none"
    /\ \E retries \in 0..MaxAttempts :
           /\ retries \notin DOMAIN wait
           /\ wait' = (retries :> callBackoffFunc(clientOpts.BackoffFunc, retries)) @@ wait
    /\ UNCHANGED <<given, clientOpts, created, scalar, codecVars, typeVars, idVars, engineVars>>

ClientNext == NewClient \/ CallNewClientWithOptions \/ CallBackoffFunc

SpecClient == ClientInit /\ [][ClientNext]_vars

----------------------------------------------------------------------------
(* GetScalar of the scalar nodes: the node is declared with a value type   *)
(* V, the client's Get answers with an error or a value, GetScalar returns *)
(* a ScalarNodeValue or an error.  A text is a sequence of pieces.         *)

\* t.String() for a Type t
TypeString(t) ==
    CASE t = "BooleanType" -> <<"BOOLEAN">>
      [] t = "IntegerType" -> <<"INTEGER">>
      [] t = "BitStringType" -> <<"BIT STRING">>
      [] t = "OctetStringType" -> <<"OCTET STRING">>
      [] t = "ObjectIdentifierType" -> <<"OBJECT IDENTIFIER">>
      [] t = "ObjectDescriptionType" -> <<"OBJECT DESCRIPTION">>
      [] t = "IPAddressType" -> <<"IP ADDRESS">>
      [] t = "Counter32Type" -> <<"COUNTER32">>
      [] t = "Gauge32Type" -> <<"GAUGE32">>
      [] t = "OpaqueType" -> <<"OPAQUE">>
      [] t = "NsapAddressType" -> <<"NSAP ADDRESS">>
      [] t = "Counter64Type" -> <<"COUNTER64">>
      [] t = "UInteger32Type" -> <<"UINTEGER32">>
      [] t = "OpaqueFloatType" -> <<"OPAQUE FLOAT">>
      [] t = "OpaqueDoubleType" -> <<"OPAQUE DOUBLE">>
      [] t = "NullType" -> <<"NULL">>

\* int64(n) for an integer n of 32 bits
Int64(n) == (IF n < 0 THEN <<255, 255, 255, 255>> ELSE <<0, 0, 0, 0>>) \o <<(n \div 16777216) % 256, (n \div 65536) % 256, (n \div 256) % 256, n % 256>>

\* strconv.FormatUint(u, 10)
FormatUint(u) == IF u = Zero64 THEN <<"0">> ELSE digitsOf(u)

\* v.String() for the values Get answers with here; fmt's %q of a nil Value
ValueString(v) ==
    CASE v.kind = "Integer" -> Itoa(Int64(v.payload))
      [] v.kind \in {"UInteger32", "Counter32", "Counter64"} -> FormatUint(Word64(v.payload))
      [] v.kind = "Null" -> <<"NULL">>
      [] v.kind = "NoSuchObject" -> <<"NO SUCH OBJECT">>
      [] v.kind = "nil" -> <<"%!q(<nil>)">>

\* an error: its text and the two operands of its format, none for most
Error(t, e, g) == [text |-> t, expected |-> e, got |-> g]

NoError == Error("nil", <<>>, <<>>)

\* what GetScalar returns; node "nil" and the nil value stand for ScalarNodeValue[V]{}
ScalarResult(n, v, e) == [panic |-> FALSE, node |-> n, value |-> v, err |-> e]

\* var v V; v.Type() on a nil interface
NilDereference == [panic |-> TRUE, node |-> "nil", value |-> Nil, err |-> NoError]

\* scalarValue.Value.(V): V is a value struct, or the interface Value itself
AssertsTo(v, V) == IF V = "Value" THEN v.kind # "nil" ELSE v.kind = V

\* GetScalar(ctx, c, node) for a node of type V, given what c.Get returned
getScalar(V, reply) ==
    IF reply.err # NoError THEN ScalarResult("nil", Nil, reply.err)
    ELSE IF ~AssertsTo(reply.value, V)
         THEN IF V = "Value" THEN NilDereference
              ELSE ScalarResult("nil", Nil, Error("unexpected value type in response", TypeString(Type(V)), ValueString(reply.value)))
    ELSE ScalarResult(V, reply.value, NoError)

\* the value types of the nodes: the value structs, and the interface Value
NodeTypes == Values \cup {"Value"}

\* what the client's Get returns: an error, or nil or a value from the agent
Replies ==
    {[err |-> Error("timeout", <<>>, <<>>), value |-> Nil]}
    \cup {[err |-> NoError, value |-> v] : v \in {Nil, NewInteger(42), NewInteger(-1), NewUInteger32(<<0, 0, 0, 7>>), NewCounter32(<<0, 0, 0, 7>>), NewCounter32(<<255, 255, 255, 255>>), NewCounter64(<<0, 0, 0, 1, 0, 0, 0, 0>>), Null, NoSuchObject}}

ScalarInit ==
    /\ given = <<>>
    /\ clientOpts = ZeroOptions
    /\ created = NotCreated
    /\ wait = <<>>
    /\ \E V \in NodeTypes, reply \in Replies : scalar = [NoScalar EXCEPT !.pc = "ready", !.node = V, !.reply = reply]
    /\ CodecIdle
    /\ TypesIdle
    /\ IdsIdle
    /\ EngineIdle

\* GetScalar(ctx, c, node): one c.Get, then the result
GetScalar ==
    /\ scalar.pc = "ready"
    /\ scalar' = [scalar EXCEPT !.pc = "done", !.gets = @ + 1, !.result = getScalar(scalar.node, scalar.reply)]
    /\ UNCHANGED <<given, clientOpts, created, wait, codecVars, typeVars, idVars, engineVars>>

ScalarNext == GetScalar

SpecScalar == ScalarInit /\ [][ScalarNext]_vars

----------------------------------------------------------------------------
(* Claims about ParseOID and Validate, checked under SpecOid.  What a      *)
(* string says is read off its characters: the groups between the dots,    *)
(* and the value of a group as a natural of any size, in big-endian bytes. *)

\* the string without the one leading dot that is ignored
Body(s) == IF s # <<>> /\ s[1] = "." THEN Tail(s) ELSE s

\* the groups between the dots of s, cur being the group under way
RECURSIVE SplitDots(_, _)
SplitDots(s, cur) ==
    IF s = <<>> THEN <<cur>>
    ELSE IF s[1] = "." THEN <<cur>> \o SplitDots(Tail(s), <<>>)
    ELSE SplitDots(Tail(s), Append(cur, s[1]))

GroupsOf(s) == SplitDots(Body(s), <<>>)

DecimalDigits == {"0", "1", "2", "3", "4", "5", "6", "7", "8", "9"}

\* a group of one or more decimal digits
DigitGroup(g) == g # <<>> /\ \A i \in 1..Len(g) : g[i] \in DecimalDigits

\* the value of a digit group, in full
RECURSIVE DecimalNat(_)
DecimalNat(g) ==
    IF g = <<>> THEN <<>>
    ELSE StripZeros(NatTimesFrom(DecimalNat(SubSeq(g, 1, Len(g) - 1)), 10, DigitOf(g[Len(g)])))

\* the value of the group is at most 2^32-1
InRange32(g) == Len(DecimalNat(g)) <= 4

\* the strings the grammar accepts: digit groups separated by single dots
\* after an optional leading dot, at least two, the first of value 0, 1 or 2,
\* each of value at most 2^32-1
WellFormedText(s) ==
    LET gs == GroupsOf(s)
    IN  /\ Len(gs) >= 2
        /\ \A i \in 1..Len(gs) : DigitGroup(gs[i]) /\ InRange32(gs[i])
        /\ DecimalNat(gs[1]) \in {<<>>, <<1>>, <<2>>}

\* the values of the groups of a well-formed string, as sub-identifiers
ValuesOf(s) == [i \in 1..Len(GroupsOf(s)) |-> ZeroPad(DecimalNat(GroupsOf(s)[i]), WordBytes)]

\* C16: ParseOID accepts exactly the well-formed strings and returns the
\* values of their groups in order; every other string is an error.
C16_ParseGrammar ==
    (idFn = "ParseOID")
    => IF WellFormedText(text)
       THEN idRes.err = <<>> /\ idRes.oid = ValuesOf(text)
       ELSE idRes.err # <<>>

\* no digit group of the string has a value of 2^64 or more
NoWrapText == \A i \in 1..Len(GroupsOf(text)) : DigitGroup(GroupsOf(text)[i]) => Len(DecimalNat(GroupsOf(text)[i])) <= WordBytes

\* the statement of C16 on the strings whose groups do not wrap
C16_HoldsWithoutWrap == NoWrapText => C16_ParseGrammar

\* C17: ParseOID rejects every string in which the value of some digit group
\* exceeds 2^32-1, however many digits the group has.
C17_ParseRange ==
    (idFn = "ParseOID" /\ \E i \in 1..Len(GroupsOf(text)) : DigitGroup(GroupsOf(text)[i]) /\ ~InRange32(GroupsOf(text)[i]))
    => idRes.err # <<>>

\* the statement of C17 on the strings whose groups do not wrap
C17_HoldsWithoutWrap == NoWrapText => C17_ParseRange

\* C18: ParseOID returns an error exactly when it returns no identifier.
C18_ErrorMeansNoOid == (idFn = "ParseOID") => ((idRes.err # <<>>) <=> (idRes.oid = <<>>))

\* the errors found while the string is scanned
ScanTexts == {"trailing dot", "consecutive dot", "invalid character"}

\* the statement of C18 for the results other than a failed validation
C18_HoldsOnScanErrors ==
    (idFn = "ParseOID" /\ (idRes.err = <<>> \/ idRes.err[1].text \in ScanTexts))
    => ((idRes.err # <<>>) <=> (idRes.oid = <<>>))

\* the violations of an OID of 64-bit sub-identifiers, each with the 0-based
\* index it is about (-1 for the OID as a whole)
Violations(o) ==
    (IF Len(o) < 2 THEN {<<"short", -1>>} ELSE {})
    \cup (IF Len(o) >= 1 /\ (o[1][1] >= 128 \/ StripZeros(o[1]) \notin {<<>>, <<1>>, <<2>>}) THEN {<<"first", 0>>} ELSE {})
    \cup {<<"negative", i - 1>> : i \in {j \in 1..Len(o) : o[j][1] >= 128}}
    \cup {<<"large", i - 1>> : i \in {j \in 1..Len(o) : o[j][1] < 128 /\ Len(StripZeros(o[j])) > 4}}

\* the violation an error of Validate reports
ViolationOf(e) ==
    CASE e.text = "must have at least two sub-identifiers" -> <<"short", -1>>
      [] e.text = "first sub-identifier must be 0, 1, or 2" -> <<"first", 0>>
      [] e.text = "must be non-negative" -> <<"negative", e.index>>
      [] e.text = "must be less than or equal to MaxUint32" -> <<"large", e.index>>

Reported(errs) == {ViolationOf(errs[i]) : i \in 1..Len(errs)}

\* C19: the error of Validate has one entry for each violation that applies
\* (too short, first element outside 0..2, each negative element, each
\* element above 2^32-1), and it is nil, and IsValid true, exactly when none
\* applies.
C19_AllViolations ==
    /\ (idFn = "Validate")
       => /\ Reported(idRes) = Violations(oidA)
          /\ Len(idRes) = Cardinality(Violations(oidA))
    /\ (idFn = "IsValid") => (idRes <=> (Violations(oidA) = {}))

\* the part of C19 that does hold: what is reported applies, and the error
\* is nil, and IsValid true, exactly when nothing applies
C19_NilIffValid ==
    /\ (idFn = "Validate")
       => /\ Reported(idRes) \subseteq Violations(oidA)
          /\ (idRes = <<>>) <=> (Violations(oidA) = {})
    /\ (idFn = "IsValid") => (idRes <=> (Violations(oidA) = {}))

----------------------------------------------------------------------------
\* no digit group of s has a leading zero
NoLeadingZeros(s) == \A i \in 1..Len(GroupsOf(s)) : Len(GroupsOf(s)[i]) = 1 \/ GroupsOf(s)[i][1] # "0"

\* the strings of the round trip: well-formed, no leading dot, no leading zeros
RoundTripText(s) == WellFormedText(s) /\ s[1] # "." /\ NoLeadingZeros(s)

\* C21: ParseOID succeeds on every well-formed string without leading dot
\* and leading zeros, and String of what it returns is that string; for a
\* valid OID, ParseOID of its String succeeds and Equals the OID; String of
\* the empty OID is the empty string.
C21_ParseStringRoundTrip ==
    /\ (idFn = "ParseOID" /\ RoundTripText(text)) => idRes.err = <<>>
    /\ (idFn = "ParseOID.String" /\ RoundTripText(text)) => idRes = text
    /\ (idFn = "String.ParseOID" /\ Violations(oidA) = {}) => (idRes.parsed.err = <<>> /\ idRes.equals)
    /\ (idFn = "String" /\ oidA = <<>>) => idRes = <<>>

\* C21: "1.4294967295" has been parsed and written back
C21_Witness == idFn = "ParseOID.String" /\ text = <<"1", ".">> \o Chars(<<4, 2, 9, 4, 9, 6, 7, 2, 9, 5>>) /\ idRes = text

\* C21: the OID {2, 2^32-1} has been written and parsed back
C21_WitnessOid == idFn = "String.ParseOID" /\ oidA = <<WordOfByte(2), <<0, 0, 0, 0, 255, 255, 255, 255>>>> /\ idRes.equals

----------------------------------------------------------------------------
(* Claims about Equals, IsRootOf and IsChildOf, checked under SpecOidRel. *)

\* the call was made
Called(m, x, y) == <<m, x, y>> \in DOMAIN rel

\* what the call returned
Returned(m, x, y) == rel[<<m, x, y>>]

\* C20: A.IsRootOf(B) holds exactly when A is a prefix of B; so it is
\* reflexive and transitive; it holds both ways exactly when A.Equals(B),
\* Equals being reflexive, symmetric and length-sensitive; and
\* A.IsChildOf(B) equals B.IsRootOf(A).
C20_RootOfAlgebra ==
    /\ \A x, y \in {"A", "B", "C"} :
          Called("IsRootOf", x, y)
          => /\ Returned("IsRootOf", x, y) <=> HasPrefix(Oid(y), Oid(x))
             /\ (Oid(x) = Oid(y) \/ Oid(x) = <<>>) => Returned("IsRootOf", x, y)
    /\ (Called("IsRootOf", "A", "B") /\ Called("IsRootOf", "B", "C") /\ Called("IsRootOf", "A", "C"))
       => ((Returned("IsRootOf", "A", "B") /\ Returned("IsRootOf", "B", "C")) => Returned("IsRootOf", "A", "C"))
    /\ (Called("IsRootOf", "A", "B") /\ Called("IsRootOf", "B", "A") /\ Called("Equals", "A", "B"))
       => ((Returned("IsRootOf", "A", "B") /\ Returned("IsRootOf", "B", "A")) <=> Returned("Equals", "A", "B"))
    /\ \A x, y \in {"A", "B"} :
          Called("Equals", x, y)
          => /\ Returned("Equals", x, y) <=> (Oid(x) = Oid(y))
             /\ (Len(Oid(x)) # Len(Oid(y))) => ~Returned("Equals", x, y)
    /\ (Called("Equals", "A", "B") /\ Called("Equals", "B", "A"))
       => (Returned("Equals", "A", "B") <=> Returned("Equals", "B", "A"))
    /\ (Called("IsChildOf", "A", "B") /\ Called("IsRootOf", "B", "A"))
       => (Returned("IsChildOf", "A", "B") <=> Returned("IsRootOf", "B", "A"))

\* C20 witness: every call was made on the chain <<>>, 1, 1.2: each OID is
\* root of the next and of the last, 1 is no root of <<>>, the two are not
\* equal, and <<>> is no child of 1.
C20_Witness ==
    /\ oidA = <<>> /\ oidB = <<1>> /\ oidC = <<1, 2>>
    /\ Called("IsRootOf", "A", "B") /\ Returned("IsRootOf", "A", "B")
    /\ Called("IsRootOf", "B", "C") /\ Returned("IsRootOf", "B", "C")
    /\ Called("IsRootOf", "A", "C") /\ Returned("IsRootOf", "A", "C")
    /\ Called("IsRootOf", "B", "A") /\ ~Returned("IsRootOf", "B", "A")
    /\ Called("Equals", "A", "B") /\ ~Returned("Equals", "A", "B")
    /\ Called("Equals", "B", "A") /\ ~Returned("Equals", "B", "A")
    /\ Called("IsChildOf", "A", "B") /\ ~Returned("IsChildOf", "A", "B")

----------------------------------------------------------------------------
(* Claims about the client options, checked under SpecClient. *)

\* b to the power of r
RECURSIVE Power(_, _)
Power(b, r) == IF r = 0 THEN 1 ELSE b * Power(b, r - 1)

\* n seconds in nanoseconds, as a natural in full
SecondsNat(n) == NatTimes(NatTimes(BytesOf(n), 1000), Millisecond)

\* a < b for two unsigned words
RECURSIVE WordLess(_, _)
WordLess(a, b) == a # <<>> /\ (a[1] < b[1] \/ (a[1] = b[1] /\ WordLess(Tail(a), Tail(b))))

\* the index of the last of the options os made by one of the functions in names, 0 for none
LastIndex(os, names) == IF \E i \in 1..Len(os) : os[i].name \in names THEN CHOOSE i \in 1..Len(os) : os[i].name \in names /\ \A j \in (i + 1)..Len(os) : os[j].name \notin names ELSE 0

\* the backoff function is the exponential one of WithExponentialBackoff
IsExponential == clientOpts.BackoffFunc.kind = "exponential"

\* C22: the backoff function of WithExponentialBackoff(base) waits base to
\* the power of retries seconds (1s, 2s, 4s, 8s for base 2), so for a base
\* of at least 2 the wait grows strictly with the number of retries; it is
\* the backoff function of NewClient, with base 2, when no option replaces it.
C22_ExponentialBackoff ==
    /\ IsExponential
       => \A r \in DOMAIN wait :
              /\ ~wait[r].panic
              /\ StripZeros(wait[r].d) = SecondsNat(Power(clientOpts.BackoffFunc.base, r))
              /\ (clientOpts.BackoffFunc.base >= 2 /\ (r + 1) \in DOMAIN wait) => WordLess(wait[r].d, wait[r + 1].d)
    /\ (created.by = "NewClient" /\ LastIndex(given, {"WithBackoffFunc", "WithExponentialBackoff"}) = 0)
       => clientOpts.BackoffFunc = Func("exponential", 2)

\* the part of C22 that holds: NewClient leaves the exponential backoff of
\* base 2 in the options unless an option replaces it, and that function
\* never panics
C22_DefaultIsBaseTwo ==
    /\ IsExponential => \A r \in DOMAIN wait : ~wait[r].panic
    /\ (created.by = "NewClient" /\ LastIndex(given, {"WithBackoffFunc", "WithExponentialBackoff"}) = 0)
       => clientOpts.BackoffFunc = Func("exponential", 2)

\* what the function does return: the exclusive or of base and retries, in
\* seconds, which for base 2 is 2s, 3s, 0s, 1s for 0, 1, 2, 3 retries
C22_WaitsOfBaseTwo ==
    (IsExponential /\ clientOpts.BackoffFunc.base = 2)
    => \A r \in DOMAIN wait \cap 0..3 : StripZeros(wait[r].d) = SecondsNat(<<2, 3, 0, 1>>[r + 1])

\* the last of the options given that was made by one of the functions in names
LastGiven(names) == given[LastIndex(given, names)]

Overridden(names) == LastIndex(given, names) # 0

\* the options NewClient hands on, field by field: what the last option for
\* the field says, the default where no option is about the field
OptionsInOrder ==
    /\ clientOpts.Target = "agent"
    /\ StripZeros(clientOpts.Timeout) = SecondsNat(IF Overridden({"WithTimeout"}) THEN LastGiven({"WithTimeout"}).n ELSE 3)
    /\ clientOpts.NumRetries = (IF Overridden({"WithNumRetries"}) THEN LastGiven({"WithNumRetries"}).n ELSE 3)
    /\ clientOpts.V2c = (IF Overridden({"WithCommunity"}) THEN LastGiven({"WithCommunity"}).s ELSE "public")
    /\ clientOpts.TracerProvider = (IF Overridden({"WithTracerProvider"}) THEN LastGiven({"WithTracerProvider"}).s ELSE "nil")
    /\ clientOpts.MeterProvider = (IF Overridden({"WithMeterProvider"}) THEN LastGiven({"WithMeterProvider"}).s ELSE "nil")
    /\ clientOpts.BackoffFunc = (IF ~Overridden({"WithBackoffFunc", "WithExponentialBackoff"}) THEN Func("exponential", 2)
                                 ELSE IF LastGiven({"WithBackoffFunc", "WithExponentialBackoff"}).name = "WithBackoffFunc"
                                      THEN Func(LastGiven({"WithBackoffFunc", "WithExponentialBackoff"}).s, 0)
                                      ELSE Func("exponential", LastGiven({"WithBackoffFunc", "WithExponentialBackoff"}).n))

\* exactly one of Auth.V2c and Auth.V3 is non-nil
OneAuth == (clientOpts.V2c = "nil") # (clientOpts.V3 = "nil")

\* C25: NewClient and NewClientWithOptions never return a nil Client with a
\* nil error; NewClient has applied the options in order on top of the
\* defaults (timeout 3s, 3 retries, community "public"), with exactly one of
\* Auth.V2c and Auth.V3 non-nil.
C25_ClientOrError ==
    /\ (created.by # "none") => (created.client # "nil" \/ created.err # "nil")
    /\ (created.by = "NewClient") => (OptionsInOrder /\ OneAuth)

\* the part of C25 that holds: the options NewClient hands to
\* NewClientWithOptions are the defaults with the options applied in order
C25_OptionsApplied == (created.by = "NewClient") => (OptionsInOrder /\ OneAuth)

\* NewClient has been called with a timeout and then a community
C25_OptionsSeen == created.by = "NewClient" /\ given = <<Option("WithTimeout", 1, ""), Option("WithCommunity", 0, "private")>>

----------------------------------------------------------------------------
(* Claims about GetScalar, checked under SpecScalar. *)

\* GetScalar has returned for a node declared with a value struct
ScalarDone == scalar.pc = "done" /\ scalar.node \in Values

\* the reply is a value of another kind than the node's
Mismatch == scalar.reply.err = NoError /\ scalar.reply.value.kind # scalar.node

\* everything of C23 but the name of the kind received: one Get; its error
\* handed on with a zero result; the value itself when its kind is the
\* node's; otherwise a type-mismatch error naming the expected kind, and no
\* value
C23_AllButKindReceived ==
    ScalarDone
    => /\ scalar.gets = 1
       /\ ~scalar.result.panic
       /\ (scalar.reply.err # NoError) => scalar.result = ScalarResult("nil", Nil, scalar.reply.err)
       /\ (scalar.reply.err = NoError /\ scalar.reply.value.kind = scalar.node)
          => scalar.result = ScalarResult(scalar.node, scalar.reply.value, NoError)
       /\ Mismatch
          => /\ scalar.result.node = "nil" /\ scalar.result.value = Nil
             /\ scalar.result.err.text = "unexpected value type in response"
             /\ scalar.result.err.expected = TypeString(Type(scalar.node))

\* C23: GetScalar for a node of kind V calls Get exactly once; it returns the
\* error of Get unchanged with a zero result; it returns the value only when
\* the value's kind is exactly V, and otherwise a type-mismatch error that
\* names the expected kind and the kind received, never a converted value.
C23_GetScalar ==
    /\ C23_AllButKindReceived
    /\ (ScalarDone /\ Mismatch /\ scalar.reply.value.kind \in Values)
       => scalar.result.err.got = TypeString(Type(scalar.reply.value.kind))

\* a Counter32 came back for an Integer node
C23_MismatchSeen == ScalarDone /\ scalar.node = "Integer" /\ scalar.reply.value = NewCounter32(<<0, 0, 0, 7>>) /\ scalar.result.err.got = <<"7">>

----------------------------------------------------------------------------
(* Claims about all the decoders together, checked under SpecCodec. *)

Decoders == LengthReaders \cup {"decodeBERValue"}

\* the tags decodeBERValue decodes without a payload
PayloadLessTags == {tagNull, tagNoSuchObject, tagNoSuchInstance, tagEndOfMibView}

\* the bytes the decoder that ran reads its length field from
LengthPart == IF fn = "decodeBERValue" THEN SliceFrom(input, 1) ELSE input

\* the bytes the decoder took after the length field
Consumed == Len(AfterField(LengthPart)) - Len(res.tail)

\* the tail is the input without the length field and the declared bytes
TailAfterDeclared ==
    /\ HasLengthField(LengthPart)
    /\ Consumed >= 0
    /\ ValueIs(DeclaredBytes(LengthPart), Consumed)
    /\ res.tail = SliceFrom(AfterField(LengthPart), Consumed)

\* C24: every decoder returns normally on every input, with a value or an
\* error, and never aborts; on success the tail is a proper suffix of the
\* input: the input without the length field for decodeBERLength, without
\* the length field and the declared bytes for the others (and without the
\* tag byte for decodeBERValue, which is all a payload-less value takes).
C24_DecodersTotal ==
    (fn \in Decoders)
    => /\ ~res.panic
       /\ (~res.err /\ fn = "decodeBERLength") => (HasLengthField(input) /\ res.tail = AfterField(input))
       /\ (~res.err /\ fn \in LengthReaders \ {"decodeBERLength"}) => TailAfterDeclared
       /\ (~res.err /\ fn = "decodeBERValue")
          => /\ input # <<>>
             /\ IF input[1] \in PayloadLessTags THEN res.tail = SliceFrom(input, 1) ELSE TailAfterDeclared

\* the length field the decoder reads is not the byte 0x80 and holds a value below 2^64
PlainLength == ~IsIndefinite(LengthPart) /\ (HasLengthField(LengthPart) => Len(StripZeros(DeclaredBytes(LengthPart))) <= WordBytes)

\* the statement of C24 on the inputs with such a length field
C24_HoldsOnPlainLengths == (PlainLength \/ (fn = "decodeBERValue" /\ input # <<>> /\ input[1] \in PayloadLessTags)) => C24_DecodersTotal

\* decodeBERBytes has returned an error for a declared length larger than the input
C24_EdgesSeen == fn = "decodeBERBytes" /\ input = <<5, 1>> /\ res.err /\ ~res.panic

\* decodeBERValue has decoded a value from the tag byte t
DecodedFrom(t) == DecodedTag(t) /\ ~res.err /\ ~res.panic

\* the payload-less value of each of the four tags without a payload
PayloadLess(t) ==
    CASE t = tagNull -> Null
      [] t = tagNoSuchObject -> NoSuchObject
      [] t = tagNoSuchInstance -> NoSuchInstance
      [] t = tagEndOfMibView -> EndOfMibViewValue

\* C26: a value decodeBERValue decodes from the tag byte t has a kind whose
\* Tag() is t, but for gauge32, which comes back as an unsigned-integer32
\* value; null and the three sentinel tags give their payload-less value and
\* take exactly the tag byte.  (The kinds of time ticks and of the sentinels
\* are declared nowhere in the package, so their Tag() is not compared.)
C26_KindOfTag ==
    \A t \in DispatchedTags :
        DecodedFrom(t)
        => /\ (t = tagGauge32) => res.value.kind = "UInteger32"
           /\ (t # tagGauge32 /\ res.value.kind \in Values) => Tag(Type(res.value.kind)) = t
           /\ (t = tagTimeTicks) => res.value.kind = "TimeTicks"
           /\ (t \in PayloadLessTags) => (res.value = PayloadLess(t) /\ res.tail = SliceFrom(input, 1))

\* the statement of C26 for every tag but counter32
C26_HoldsButForCounter32 == ~DecodedFrom(tagCounter32) => C26_KindOfTag

\* a counter32 has been decoded: its kind's Tag() is that of an ip-address
C26_Counter32Seen == DecodedFrom(tagCounter32) /\ input = <<65, 1, 1>> /\ res.value.kind = "Counter32" /\ Tag(Type("Counter32")) = tagIpAddress

====
